---------------------------- MODULE Spec2Model ----------------------------
(***************************************************************************)
(* Similarity search of project-explorer-3d: ProjectRAGService             *)
(* (rag_service.py), find_similar_projects of streamlit_app_production.py  *)
(* and of streamlit_app_fixed.py.                                          *)
(*                                                                         *)
(* A text is the sequence of its whitespace-separated words (what          *)
(* str.split() returns); the empty sequence is the empty or whitespace-    *)
(* only string.  Real numbers are fixed point: an idf weight is in units   *)
(* of 10^-7, a component of an L2-normalised vector and a cosine           *)
(* similarity are in units of 10^-8, every result rounded to the nearest.  *)
(***************************************************************************)
EXTENDS Integers, Sequences, FiniteSets, TLC

(***************************************************************************)
(* Bounds of the model.                                                    *)
(***************************************************************************)
\* The most rows a CSV file of ProjectRAGService has.
MaxDocs == 3
\* The most rows the DataFrame of streamlit_app_production has.
MaxProdDocs == 2
\* The largest limit / top_k of a direct call (the least is 1).
MaxLimit == 2

\* The longest description given to the technology analysis, in words.
MaxStackWords == 3

(***************************************************************************)
(* Words.  For every raw word: its lowercase form (str.lower), the tokens  *)
(* scikit-learn's default token_pattern (?u)\b\w\w+\b finds in the         *)
(* lowercase form, the runs left when every character outside              *)
(* [a-zA-Z0-9\s] becomes a space, and the word with string.punctuation     *)
(* deleted.                                                                *)
(***************************************************************************)
WordTable ==
  [w \in {"AI", "ai", "chatbot", "support", "support.", "tracker", "the", "!!!",
          "nan", "crm", "Helper", "Ledger", "Desk", "Unknown", "Project",
          "helper", "ledger", "desk", "unknown", "project",
          "for", "customer", "using", "GPT", "models", "Blockchain-based", "supply",
          "chain", "Customer", "ticketing", "system", "with", "triage", "I", "want",
          "an", "assistant", "handling", "service", "tickets.",
          "React", "JavaScript", "Node.js", "email", "machine", "learning", "SaaS",
          "subscription", "e-commerce", "shop", "  "} |->
     CASE w = "AI"       -> [lower |-> "ai",       sk |-> <<"ai">>,      alnum |-> <<"ai">>,      nopunct |-> "ai"]
       [] w = "ai"       -> [lower |-> "ai",       sk |-> <<"ai">>,      alnum |-> <<"ai">>,      nopunct |-> "ai"]
       [] w = "chatbot"  -> [lower |-> "chatbot",  sk |-> <<"chatbot">>, alnum |-> <<"chatbot">>, nopunct |-> "chatbot"]
       [] w = "support"  -> [lower |-> "support",  sk |-> <<"support">>, alnum |-> <<"support">>, nopunct |-> "support"]
       [] w = "support." -> [lower |-> "support.", sk |-> <<"support">>, alnum |-> <<"support">>, nopunct |-> "support"]
       [] w = "tracker"  -> [lower |-> "tracker",  sk |-> <<"tracker">>, alnum |-> <<"tracker">>, nopunct |-> "tracker"]
       [] w = "the"      -> [lower |-> "the",      sk |-> <<"the">>,     alnum |-> <<"the">>,     nopunct |-> "the"]
       [] w = "!!!"      -> [lower |-> "!!!",      sk |-> <<>>,          alnum |-> <<>>,          nopunct |-> ""]
       [] w = "nan"      -> [lower |-> "nan",      sk |-> <<"nan">>,     alnum |-> <<"nan">>,     nopunct |-> "nan"]
       [] w = "crm"      -> [lower |-> "crm",      sk |-> <<"crm">>,     alnum |-> <<"crm">>,     nopunct |-> "crm"]
       [] w = "Helper"   -> [lower |-> "helper",   sk |-> <<"helper">>,  alnum |-> <<"helper">>,  nopunct |-> "helper"]
       [] w = "Ledger"   -> [lower |-> "ledger",   sk |-> <<"ledger">>,  alnum |-> <<"ledger">>,  nopunct |-> "ledger"]
       [] w = "Desk"     -> [lower |-> "desk",     sk |-> <<"desk">>,    alnum |-> <<"desk">>,    nopunct |-> "desk"]
       [] w = "Unknown"  -> [lower |-> "unknown",  sk |-> <<"unknown">>, alnum |-> <<"unknown">>, nopunct |-> "unknown"]
       [] w = "Project"  -> [lower |-> "project",  sk |-> <<"project">>, alnum |-> <<"project">>, nopunct |-> "project"]
       [] w = "GPT"      -> [lower |-> "gpt",      sk |-> <<"gpt">>,     alnum |-> <<"gpt">>,     nopunct |-> "gpt"]
       [] w = "Customer" -> [lower |-> "customer", sk |-> <<"customer">>, alnum |-> <<"customer">>, nopunct |-> "customer"]
       [] w = "tickets." -> [lower |-> "tickets.", sk |-> <<"tickets">>, alnum |-> <<"tickets">>, nopunct |-> "tickets"]
       [] w = "I"        -> [lower |-> "i",        sk |-> <<>>,          alnum |-> <<"i">>,       nopunct |-> "i"]
       [] w = "Blockchain-based" ->
            [lower |-> "blockchain-based", sk |-> <<"blockchain", "based">>,
             alnum |-> <<"blockchain", "based">>, nopunct |-> "blockchainbased"]
       [] w = "React"    -> [lower |-> "react",    sk |-> <<"react">>,   alnum |-> <<"react">>,   nopunct |-> "react"]
       [] w = "SaaS"     -> [lower |-> "saas",     sk |-> <<"saas">>,    alnum |-> <<"saas">>,    nopunct |-> "saas"]
       [] w = "JavaScript" ->
            [lower |-> "javascript", sk |-> <<"javascript">>, alnum |-> <<"javascript">>,
             nopunct |-> "javascript"]
       [] w = "Node.js"  -> [lower |-> "node.js",  sk |-> <<"node", "js">>, alnum |-> <<"node", "js">>, nopunct |-> "nodejs"]
       [] w = "e-commerce" ->
            [lower |-> "e-commerce", sk |-> <<"commerce">>, alnum |-> <<"e", "commerce">>,
             nopunct |-> "ecommerce"]
       [] w = "  "       -> [lower |-> "  ",       sk |-> <<>>,          alnum |-> <<>>,          nopunct |-> ""]
       [] OTHER          -> [lower |-> w,          sk |-> <<w>>,         alnum |-> <<w>>,         nopunct |-> w]]

\* The sequence with every member evaluated (a TLC tuple).
Array(seq) == seq \o <<>>

Min(a, b) == IF a < b THEN a ELSE b
Max(a, b) == IF a > b THEN a ELSE b

\* Use(value), with the value computed once.
Once(value, Use(_)) == CHOOSE used \in {Use(x) : x \in {value}} : TRUE

\* str.lower() of a text, word by word.
Lower(text) == Array([i \in 1..Len(text) |-> WordTable[text[i]].lower])

\* The members of sklearn's ENGLISH_STOP_WORDS among the model's tokens.
EnglishStopWords == {"the", "for", "an", "with", "system"}

\* The members of nltk's stopwords.words('english') among the model's tokens.
NltkStopWords == {"the", "for", "an", "with", "i"}

RECURSIVE Flatten(_)
\* The concatenation of a sequence of sequences.
Flatten(ss) == IF ss = <<>> THEN <<>> ELSE Head(ss) \o Flatten(Tail(ss))

RECURSIVE SelectTokens(_, _)
\* The tokens of `toks` that are not in `drop`, in order.
SelectTokens(toks, drop) ==
  IF toks = <<>> THEN <<>>
  ELSE IF Head(toks) \in drop THEN SelectTokens(Tail(toks), drop)
       ELSE <<Head(toks)>> \o SelectTokens(Tail(toks), drop)

\* str.strip() == '' : the text has no word.
IsBlank(text) == text = <<>>

(***************************************************************************)
(* TfidfVectorizer.  A configuration is                                    *)
(*   [stop: set of tokens, ngram_max, min_df, max_df_pct].                 *)
(* A term is an n-gram: a sequence of 1..ngram_max tokens.                 *)
(***************************************************************************)

\* build_analyzer(): lowercase, tokenise, drop stop words (before n-grams).
Analyze(text, cfg) ==
  SelectTokens(Flatten([i \in 1..Len(text) |-> WordTable[text[i]].sk]), cfg.stop)

\* The n-grams of a token sequence.
TermsOf(toks, cfg) ==
  {SubSeq(toks, i, j) : <<i, j>> \in
     {p \in (1..Len(toks)) \X (1..Len(toks)) : p[1] <= p[2] /\ p[2] - p[1] < cfg.ngram_max}}

\* How often term t occurs in the token sequence.
TermCount(toks, t) ==
  Cardinality({i \in 1..(Len(toks) - Len(t) + 1) : SubSeq(toks, i, i + Len(t) - 1) = t})

RECURSIVE SumSeq(_)
\* The sum of a sequence of numbers.
SumSeq(xs) == IF xs = <<>> THEN 0 ELSE Head(xs) + SumSeq(Tail(xs))

\* Half the digits of the fixed point: a product of two numbers below
\* Unit * Unit is taken in parts of Unit.
Unit == 10000
\* The fixed-point 1.0 of an idf weight (seven decimal places).
IdfOne == 1000 * Unit
\* The fixed-point 1.0 of a component of a normalised vector and of a cosine
\* similarity (eight decimal places, each value rounded to the nearest; the
\* last place may differ from the float of the program by a unit).
One == Unit * Unit

\* A natural number wider than a machine integer: hi * One + lo, lo < One.
Wide(hi, lo) == [hi |-> hi + lo \div One, lo |-> lo % One]

\* x * y, for x and y below 46340 * Unit.
Times(x, y) ==
  LET a == x \div Unit
      b == x % Unit
      c == y \div Unit
      d == y % Unit
      mid == a * d + b * c
  IN Wide(a * c + mid \div Unit, (mid % Unit) * Unit + b * d)

\* m <= n
AtMost(m, n) == m.hi < n.hi \/ (m.hi = n.hi /\ m.lo <= n.lo)

RECURSIVE DotFrom(_, _, _, _)
\* sum + x[c] * y[c] + ... + x[Len(x)] * y[Len(x)]
DotFrom(x, y, c, sum) ==
  IF c > Len(x) THEN sum
  ELSE IF x[c] = 0 \/ y[c] = 0 THEN DotFrom(x, y, c + 1, sum)
  ELSE DotFrom(x, y, c + 1,
               Once(Times(x[c], y[c]), LAMBDA p : Wide(sum.hi + p.hi, sum.lo + p.lo)))

\* The dot product of two vectors of one length.
Dot(x, y) == DotFrom(x, y, 1, Wide(0, 0))

\* A wide number to the nearest multiple of One, in units of One.
Nearest(m) == m.hi + (IF 2 * m.lo >= One THEN 1 ELSE 0)

RECURSIVE Newton(_, _)
\* The integer part of the square root of n > 0, by Newton's steps down from
\* r, which is at or above it.
Newton(n, r) ==
  LET next == (r + n \div r) \div 2
  IN IF next >= r THEN r ELSE Newton(n, next)

RECURSIVE SqrtSearch(_, _, _)
\* The greatest r in lo..hi with r * r <= x, for a wide number x.
SqrtSearch(x, lo, hi) ==
  IF lo >= hi THEN lo
  ELSE LET mid == (lo + hi + 1) \div 2
       IN IF AtMost(Times(mid, mid), x) THEN SqrtSearch(x, mid, hi)
          ELSE SqrtSearch(x, lo, mid - 1)

\* The integer part of the square root of a wide number below 46340^2 * One.
\* It is head * Unit + t with head the integer part of the root of x.hi and
\* t below Unit; Newton's step from head * Unit, (x - head^2 * One) /
\* (2 * head * Unit), is above t by less than Unit / (2 * head), which
\* leaves a short search.
FloorSqrt(x) ==
  IF x.hi = 0 THEN SqrtSearch(x, 0, Unit - 1)
  ELSE Once(Newton(x.hi, 46340), LAMBDA head :
         Once(Min(((x.hi - head * head) * Unit + x.lo \div Unit) \div (2 * head) + 1,
                  Unit - 1),
              LAMBDA step :
                SqrtSearch(x, head * Unit + Max(0, step - Unit \div (2 * head) - 2),
                           head * Unit + step)))

\* np.sqrt: the square root of a wide number, to the nearest integer.
Sqrt(x) ==
  Once(FloorSqrt(x), LAMBDA floor :
    IF AtMost(x, Once(Times(floor, floor), LAMBDA p : Wide(p.hi, p.lo + floor)))
      THEN floor ELSE floor + 1)

RECURSIVE LongDivision(_, _, _, _)
\* The quotient so far, with one more decimal place for every factor 10
\* between `weight` and One, and rounded to the nearest at the end.
LongDivision(quotient, remainder, r, weight) ==
  IF weight = One THEN quotient + (IF 2 * remainder >= r THEN 1 ELSE 0)
  ELSE LongDivision(10 * quotient + (10 * remainder) \div r, (10 * remainder) % r,
                    r, 10 * weight)

\* x / r in units of 1/One, to the nearest; r is below 2^31 / 10.
Divide(x, r) == IF x = 0 THEN 0 ELSE LongDivision(x \div r, x % r, r, 1)

\* 10^7 * ln(k) for k = 1..10, for the smoothed idf  ln((1 + n) / (1 + df)) + 1.
Ln ==
  <<0, 6931472, 10986123, 13862944, 16094379, 17917595, 19459101, 20794415, 21972246,
    23025851>>

\* The place of each token of the model in alphabetical order.
TokenRank ==
  "ai" :> 1 @@ "assistant" :> 2 @@ "based" :> 3 @@ "blockchain" :> 4 @@ "chain" :> 5 @@
  "chatbot" :> 6 @@ "crm" :> 7 @@ "customer" :> 8 @@ "desk" :> 9 @@ "gpt" :> 10 @@
  "handling" :> 11 @@ "helper" :> 12 @@ "ledger" :> 13 @@ "models" :> 14 @@ "nan" :> 15 @@
  "project" :> 16 @@ "service" :> 17 @@ "supply" :> 18 @@ "support" :> 19 @@ "the" :> 20 @@
  "ticketing" :> 21 @@ "tickets" :> 22 @@ "tracker" :> 23 @@ "triage" :> 24 @@
  "unknown" :> 25 @@ "using" :> 26 @@ "want" :> 27

\* A number that orders n-grams of up to three tokens as their strings (the
\* tokens joined by a space) are ordered: a prefix sorts first.
TermKey(t) ==
  (TokenRank[t[1]] * 32 + (IF Len(t) >= 2 THEN TokenRank[t[2]] ELSE 0)) * 32
    + (IF Len(t) >= 3 THEN TokenRank[t[3]] ELSE 0)

RECURSIVE SortByKey(_)
\* The second members of a set of <<key, term>> pairs, by ascending key.
SortByKey(pairs) ==
  IF pairs = {} THEN <<>>
  ELSE LET least == CHOOSE p \in pairs : \A q \in pairs : p[1] <= q[1]
       IN <<least[2]>> \o SortByKey(pairs \ {least})

\* The terms of a vocabulary in column order: vocabulary_ numbers the sorted
\* terms.
SortedTerms(vocabulary) == SortByKey({<<TermKey(t), t>> : t \in vocabulary})

\* sklearn.preprocessing.normalize(norm='l2'): every component divided by
\* the length of the vector, in units of 1/One; a zero row is left as it is.
Normalize(v) ==
  Once(Sqrt(Dot(v, v)), LAMBDA norm :
    IF norm = 0 THEN v ELSE Array([c \in 1..Len(v) |-> Divide(v[c], norm)]))

\* transform(): the tf-idf row of one token sequence over the fitted
\* features.  A term outside the vocabulary contributes nothing.
TfidfRow(features, idf, toks) ==
  Once(Array([c \in 1..Len(features) |-> TermCount(toks, features[c]) * idf[c]]), Normalize)

\* fit_transform(docs): the fitted vectorizer and the tf-idf matrix, or the
\* ValueError scikit-learn raises.
FitTransform(docs, cfg) ==
  LET n == Len(docs)
      toks == Array([i \in 1..n |-> Analyze(docs[i], cfg)])
      all == UNION {TermsOf(toks[i], cfg) : i \in 1..n}
      terms == Array([i \in 1..n |-> TermsOf(toks[i], cfg)])
      doc_freq == [t \in all |-> Cardinality({i \in 1..n : t \in terms[i]})]
      kept == {t \in all : 100 * doc_freq[t] <= cfg.max_df_pct * n /\ doc_freq[t] >= cfg.min_df}
      features == SortedTerms(kept)
      idf == Array([c \in 1..Len(features) |->
                      IdfOne + Ln[n + 1] - Ln[doc_freq[features[c]] + 1]])
  IN IF all = {}
       THEN [ok |-> FALSE, error |-> "empty vocabulary"]
     ELSE IF cfg.max_df_pct * n < 100 * cfg.min_df
       THEN [ok |-> FALSE, error |-> "max_df corresponds to < documents than min_df"]
     ELSE IF kept = {}
       THEN [ok |-> FALSE, error |-> "After pruning, no terms remain"]
     ELSE [ok |-> TRUE,
           vectorizer |-> [fitted |-> TRUE, features |-> features, idf |-> idf, cfg |-> cfg],
           matrix |-> Array([i \in 1..n |-> TfidfRow(features, idf, toks[i])])]

\* vectorizer.transform([text])
Transform(vectorizer, text) ==
  TfidfRow(vectorizer.features, vectorizer.idf, Analyze(text, vectorizer.cfg))

\* cosine_similarity(query_vector, tfidf_matrix).flatten(): both arguments
\* are normalised again, and the value of a row is its dot product with the
\* query, in units of 1/One.  The roundings leave the value of two parallel
\* vectors within a few units of One, above it or below.
CosineSimilarity(qv, matrix) ==
  Once(Normalize(qv), LAMBDA X_normalized :
    Array([i \in 1..Len(matrix) |->
             Once(Normalize(matrix[i]), LAMBDA Y_normalized :
               Nearest(Dot(X_normalized, Y_normalized)))]))

(***************************************************************************)
(* State.                                                                  *)
(***************************************************************************)
VARIABLES
  app,           \* which program runs: "rag" (rag_service.py), "prod", "fixed"
  env,           \* what the build leaves open: argsort's order of equal keys,
                 \* the iteration order of a set of str (hash seed), whether
                 \* st.cache_data replays the elements of a cached call
  csv,           \* rag: the file at csv_path; fixed: the file in the uploader
  pc,            \* rag: "new", "exited", "crashed", "ready", or a step of the rebuild
  projects_df,   \* rag: self.projects_df
  vectorizer,    \* rag: self.vectorizer
  tfidf_matrix,  \* rag: self.tfidf_matrix
  df,            \* prod, fixed: the DataFrame the page works on
  cache,         \* fixed: the entries of st.cache_data for load_project_data;
                 \* prod: the entry of st.cache_data for load_enhanced_data
  ui,            \* prod, fixed: the st.error / st.warning / st.success messages of the run
  http,          \* rag_api: the latest request to /api/similar-projects and its response
  public_api,    \* the PublicAPIManager object in use: requests_made, last_request_time
  net,           \* the HTTP GETs issued to the public APIs, and the clock
  session_state, \* st.session_state of the Streamlit session
  track,         \* whether the first call is kept in `first`
  first,         \* the first find_similar_projects call with its outcome, and
                 \* whether a different call has been made since
  last,          \* the latest find_similar_projects call and its outcome
  calls          \* rag: the find_similar_projects calls in progress, by thread:
                 \* the arguments, the line reached and the locals assigned

vars ==
  <<app, env, csv, pc, projects_df, vectorizer, tfidf_matrix, df, cache, ui, http, public_api,
    net, session_state, track, first, last, calls>>

\* Python's None.  A DataFrame or matrix is [rows |-> its rows].
None == [none |-> TRUE]

(***************************************************************************)
(* Inputs: rows of the CSV file, query texts, limits.                      *)
(***************************************************************************)
\* A row with every column find_similar_projects reads; an empty cell is <<>>.
RecordPool ==
  { [name |-> <<"Helper">>, ai_summary |-> <<"AI", "chatbot">>, description |-> <<"chatbot", "support.">>,
     github_url |-> <<"https://github.com/acme/helper">>, project_url |-> <<>>,
     demo_url |-> <<"https://helper.example">>, github_stars |-> <<"12">>],
    [name |-> <<"Desk">>,   ai_summary |-> <<>>,               description |-> <<"chatbot", "support">>,
     github_url |-> <<>>, project_url |-> <<>>, demo_url |-> <<>>, github_stars |-> <<>>],
    [name |-> <<>>,         ai_summary |-> <<>>,               description |-> <<>>,
     github_url |-> <<>>, project_url |-> <<>>, demo_url |-> <<>>, github_stars |-> <<>>] }

\* The columns load_data cleans, and the ones find_similar_projects reads
\* besides them, in the order it reads them (87-90).
TextColumns == {"name", "ai_summary", "description"}
LinkColumns == <<"github_url", "project_url", "demo_url", "github_stars">>

\* The link columns a file has: none of them, github_url and github_stars
\* alone, or all four.
LinkColumnSets ==
  {{}, {"github_url", "github_stars"}, {LinkColumns[i] : i \in 1..Len(LinkColumns)}}

\* The row of a file that has the text columns and `columns`.
RowOf(row, columns) == [k \in TextColumns \cup columns |-> row[k]]

RECURSIVE SeqsUpTo(_, _)
\* The sequences of at most n members of S.
SeqsUpTo(S, n) ==
  IF n = 0 THEN {<<>>}
  ELSE LET shorter == SeqsUpTo(S, n - 1)
       IN shorter \cup {Append(s, x) : s \in {t \in shorter : Len(t) = n - 1}, x \in S}

Corpora == SeqsUpTo(RecordPool, MaxDocs)

\* A NaN cell of a DataFrame.  read_csv makes an empty cell NaN, and a cell
\* that reads 'nan' too; str() and an f-string format NaN as 'nan', so the
\* cell is kept as the text it is read as.
NaNCell == <<"nan">>

\* pd.read_csv: the rows of the file with NaN for every empty cell.
ReadCsv(rows) ==
  [i \in 1..Len(rows) |->
     [k \in DOMAIN rows[i] |-> IF rows[i][k] = <<>> THEN NaNCell ELSE rows[i][k]]]

\* df[column] = df[column].fillna(value)
FillNa(rows, column, value) ==
  [i \in 1..Len(rows) |->
     [rows[i] EXCEPT ![column] = IF @ = NaNCell THEN value ELSE @]]

\* The rows after the three fillna lines of load_data.
Cleaned(rows) ==
  FillNa(FillNa(FillNa(rows, "ai_summary", <<>>), "description", <<>>),
         "name", <<"Unknown", "Project">>)

\* load_data on one row: an empty ai_summary or description is the empty
\* text, a missing name becomes 'Unknown Project', every other empty cell
\* stays NaN.
CleanRow(r) == Cleaned(ReadCsv(<<r>>))[1]

\* A choice that goes to the description first.
DescriptionFirst(row) ==
  LET text == IF ~IsBlank(row.description) THEN row.description ELSE row.ai_summary
  IN IF IsBlank(text) THEN row.name ELSE text

\* prepare_embeddings' choice of the text of a row: ai_summary if it is not
\* blank, else description, and if that is blank the name.
DocText(row) ==
  LET text == IF ~IsBlank(row.ai_summary) THEN row.ai_summary ELSE row.description
  IN IF IsBlank(text) THEN row.name ELSE text

Queries ==
  {<<>>, <<"!!!">>} \cup {DocText(CleanRow(r)) : r \in RecordPool}

Limits == 1..MaxLimit

\* TfidfVectorizer(max_features=1000, stop_words='english', ngram_range=(1, 2),
\* min_df=1, max_df=0.95).  The model's vocabularies stay below max_features.
RagConfig == [stop |-> EnglishStopWords, ngram_max |-> 2, min_df |-> 1, max_df_pct |-> 95]

(***************************************************************************)
(* Ranking (rag_service.py 73-97).                                         *)
(***************************************************************************)

\* numpy leaves the order of equal keys in argsort() (kind='quicksort') to
\* the build: the scalar sort keeps equal keys of a short array in index
\* order, a vectorised sort need not.
TieOrders == {"index_order", "reverse_index_order"}

\* similarities.argsort(): the row numbers (from 1) in ascending order of
\* similarity.
Argsort(sims, ties) ==
  LET n == Len(sims)
      Before(j, i) ==
        \/ sims[j] < sims[i]
        \/ sims[j] = sims[i] /\ (IF ties = "index_order" THEN j < i ELSE j > i)
      pos == [i \in 1..n |-> 1 + Cardinality({j \in 1..n : Before(j, i)})]
  IN Array([p \in 1..n |-> CHOOSE i \in 1..n : pos[i] = p])

\* order[-limit:] as Python slices it: the last `limit` members for a
\* positive limit, the whole array for 0, all but the first -limit members
\* for a negative limit.
LastSlice(order, limit) ==
  LET n == Len(order)
      start == IF limit > 0 THEN Max(n - limit, 0) ELSE Min(0 - limit, n)
  IN SubSeq(order, start + 1, n)

\* The sequence as it is: the ranking left in ascending order.
SameOrder(seq) == seq

\* seq[::-1]
Reverse(seq) == Array([i \in 1..Len(seq) |-> seq[Len(seq) + 1 - i]])

\* similarities.argsort()[-limit:][::-1]
TopIndices(sims, limit, ties) == Reverse(LastSlice(Argsort(sims, ties), limit))

\* A filter that lets every similarity through.
NotNegative(sim) == sim >= 0

\* similarities[idx] > 0.01
AboveThreshold(sim) == sim > One \div 100

\* round(similarities[idx] * 100, 2), in hundredths of a percent.
RagScore(sim) == (sim + One \div 20000) \div (One \div 10000)

\* _determine_complexity
DetermineComplexity(sim) ==
  IF sim > 7 * (One \div 10) THEN "low"
  ELSE IF sim > 4 * (One \div 10) THEN "medium"
  ELSE "high"

RECURSIVE Factorial(_)
Factorial(n) == IF n <= 1 THEN 1 ELSE n * Factorial(n - 1)

RECURSIVE Member(_, _)
\* The member number i (from 0) of a set, in one fixed numbering of its
\* members.
Member(S, i) ==
  LET m == CHOOSE w \in S : TRUE
  IN IF i = 0 THEN m ELSE Member(S \ {m}, i - 1)

RECURSIVE SetToList(_, _)
\* list(set) for a set of str: the iteration order of the process.  The
\* order follows the hashes of the words, which the process draws from its
\* hash seed (PYTHONHASHSEED), so every order of the words is the order of
\* some process and one process always gives one set the same order.  The
\* seed numbers the orders: a set of n words has n! of them, and seed % n! is
\* the number of the one this process gives.
SetToList(S, seed) ==
  IF S = {} THEN <<>>
  ELSE LET rest == Factorial(Cardinality(S) - 1)
           m == Member(S, (seed \div rest) % Cardinality(S))
       IN <<m>> \o SetToList(S \ {m}, seed % rest)

\* The words _generate_match_reason finds in both texts and keeps.
SharedWords(user_idea, project) ==
  LET user_words == {Lower(user_idea)[i] : i \in 1..Len(user_idea)}
      project_text == Lower(project.ai_summary \o project.description)
      project_words == {project_text[i] : i \in 1..Len(project_text)}
  IN {w \in user_words \cap project_words : Len(w) > 3}

\* The hash seeds that tell apart every order of every set of words shared
\* by one of the ideas and one of the projects.
HashSeedsFor(ideas, projects) ==
  LET sizes == {Cardinality(SharedWords(q, r)) : q \in ideas, r \in projects}
      most == CHOOSE n \in sizes : \A k \in sizes : k <= n
  IN 0..(Factorial(most) - 1)

\* _generate_match_reason without the [:3] slice.
AllCommonWords(user_idea, project, seed) ==
  LET common_words == SetToList(SharedWords(user_idea, project), seed)
  IN IF common_words # <<>>
       THEN [kind |-> "Shared concepts", words |-> common_words]
       ELSE [kind |-> "Semantic similarity in project context", words |-> <<>>]

\* _generate_match_reason
GenerateMatchReason(user_idea, project, seed) ==
  LET common_words == SetToList(SharedWords(user_idea, project), seed)
  IN IF common_words # <<>>
       THEN [kind |-> "Shared concepts", words |-> SubSeq(common_words, 1, Min(3, Len(common_words)))]
       ELSE [kind |-> "Semantic similarity in project context", words |-> <<>>]

\* pd.notna(cell)
NotNa(cell) == cell # NaNCell

\* str(cell) if pd.notna(cell) else ''
StrOrEmpty(cell) == IF NotNa(cell) THEN cell ELSE <<>>

\* The numbers a github_stars cell of the model's rows is read as.
StarsRead == [cell \in {<<"12">>} |-> 12]

\* int(cell) if pd.notna(cell) else 0
IntOrZero(cell) == IF NotNa(cell) THEN StarsRead[cell] ELSE 0

\* The link columns `project`, a row of projects_df, does not have, in the
\* order find_similar_projects reads them: project[column] raises KeyError
\* for the first.
MissingColumns(project) ==
  SelectSeq(LinkColumns, LAMBDA column : column \notin DOMAIN project)

\* One turn of the loop of find_similar_projects for an index above the
\* threshold (79-95): the row of projects_df read at line 79 and the result
\* made of it.  An index outside projects_df raises IndexError, a column
\* projects_df does not have raises KeyError.
MatchOfRow(idx, sims, frame, user_idea, e) ==
  IF idx > Len(frame)
    THEN [raised |-> TRUE, error |-> "IndexError", results |-> <<>>]
  ELSE IF MissingColumns(frame[idx]) # <<>>
    THEN [raised |-> TRUE, error |-> "KeyError",
          key |-> Head(MissingColumns(frame[idx])), results |-> <<>>]
  ELSE [raised |-> FALSE,
        result |-> [id |-> idx - 1,
                    name |-> frame[idx].name,
                    description |-> frame[idx].description,
                    ai_summary |-> frame[idx].ai_summary,
                    github_url |-> StrOrEmpty(frame[idx].github_url),
                    project_url |-> StrOrEmpty(frame[idx].project_url),
                    demo_url |-> StrOrEmpty(frame[idx].demo_url),
                    github_stars |-> IntOrZero(frame[idx].github_stars),
                    similarity_score |-> RagScore(sims[idx]),
                    match_reason |-> GenerateMatchReason(user_idea, frame[idx], e.hash_seed),
                    integration_complexity |-> DetermineComplexity(sims[idx])]]

RECURSIVE CollectResults(_, _, _, _, _)
\* The loop of find_similar_projects over top_indices on one projects_df:
\* one result per index above the threshold, or the exception of the first
\* turn that raises.
CollectResults(indices, sims, frame, user_idea, e) ==
  IF indices = <<>> THEN [raised |-> FALSE, error |-> "", results |-> <<>>]
  ELSE LET idx == Head(indices)
           rest == CollectResults(Tail(indices), sims, frame, user_idea, e)
       IN IF ~AboveThreshold(sims[idx]) THEN rest
          ELSE Once(MatchOfRow(idx, sims, frame, user_idea, e), LAMBDA made :
                 IF made.raised THEN made
                 ELSE IF rest.raised THEN rest
                 ELSE [rest EXCEPT !.results = <<made.result>> \o @])

\* find_similar_projects (68): query_vector, or the NotFittedError of
\* transform.
QueryVector(vec, user_idea) ==
  IF vec = None \/ ~vec.fitted
    THEN [raised |-> TRUE, error |-> "NotFittedError", results |-> <<>>]
  ELSE [raised |-> FALSE, query_vector |-> Transform(vec, user_idea)]

\* find_similar_projects (71): similarities, or the ValueError of
\* cosine_similarity.
Similarities(query_vector, matrix) ==
  IF matrix = None
    THEN [raised |-> TRUE, error |-> "ValueError: Expected 2D array", results |-> <<>>]
  ELSE IF matrix.rows # <<>> /\ Len(matrix.rows[1]) # Len(query_vector)
    THEN [raised |-> TRUE, error |-> "ValueError: Incompatible dimension", results |-> <<>>]
  ELSE [raised |-> FALSE, similarities |-> CosineSimilarity(query_vector, matrix.rows)]

\* find_similar_projects (74-97): top_indices and the loop over them, on
\* one projects_df.
Matches(similarities, frame, user_idea, limit, e) ==
  CollectResults(TopIndices(similarities, limit, e.ties), similarities,
                 frame.rows, user_idea, e)

\* ProjectRAGService.find_similar_projects run from its first line to its
\* return on the fields of the service as they are: the outcome is a result
\* list or the exception that escapes.
FindSimilarProjects(frame, vec, matrix, user_idea, limit, e) ==
  Once(QueryVector(vec, user_idea), LAMBDA transformed :
    IF transformed.raised THEN transformed
    ELSE Once(Similarities(transformed.query_vector, matrix), LAMBDA scored :
           IF scored.raised THEN scored
           ELSE Matches(scored.similarities, frame, user_idea, limit, e)))

(***************************************************************************)
(* ProjectRAGService (rag_service.py).                                     *)
(***************************************************************************)
\* The rows load_data leaves in projects_df.
CleanRows == {CleanRow(r) : r \in RecordPool}

HashSeeds == HashSeedsFor(Queries, CleanRows)

Envs == [ties : TieOrders, hash_seed : HashSeeds]

\* What pd.read_csv(csv_path) finds: the rows of the file, with the text
\* columns and some of the link columns, or a file it cannot read (missing,
\* or without the columns load_data cleans).
CsvFiles ==
  {[readable |-> TRUE, rows |-> [i \in 1..Len(c) |-> RowOf(c[i], columns)]] :
     c \in Corpora, columns \in LinkColumnSets}
    \cup {[readable |-> FALSE, rows |-> <<>>]}

\* One find_similar_projects call and what came of it.
Call(user_idea, limit, outcome) ==
  [user_idea |-> user_idea, limit |-> limit, outcome |-> outcome]

\* What `first` becomes when `call` is made.
Remember(call) ==
  IF ~track THEN first
  ELSE IF first = None THEN [call |-> call, between |-> FALSE]
  ELSE [first EXCEPT !.between =
          @ \/ call.user_idea # first.call.user_idea \/ call.limit # first.call.limit]

\* A text_data list in the opposite order of the records.
TextDataReversed(frame) == [i \in 1..Len(frame) |-> DocText(frame[Len(frame) + 1 - i])]

\* The text_data list of prepare_embeddings.
TextData(frame) == [i \in 1..Len(frame) |-> DocText(frame[i])]

\* ProjectRAGService(csv_path): load_data, then prepare_embeddings.  A file
\* that cannot be read ends the process (sys.exit(1)); a ValueError of
\* fit_transform escapes the constructor and no service exists.
Construct ==
  /\ app = "rag" /\ pc = "new"
  /\ IF ~csv.readable
       THEN /\ pc' = "exited"
            /\ UNCHANGED <<projects_df, vectorizer, tfidf_matrix>>
       ELSE LET rows == [i \in 1..Len(csv.rows) |-> CleanRow(csv.rows[i])]
                fit == FitTransform(TextData(rows), RagConfig)
            IN /\ projects_df' = [rows |-> rows]
               /\ IF fit.ok
                    THEN /\ vectorizer' = fit.vectorizer
                         /\ tfidf_matrix' = [rows |-> fit.matrix]
                         /\ pc' = "ready"
                    ELSE /\ vectorizer' = [fitted |-> FALSE]
                         /\ tfidf_matrix' = None
                         /\ pc' = "crashed"
  /\ UNCHANGED <<app, calls, env, csv, df, cache, ui, track, first, last, http, public_api, net, session_state>>

\* The positions at which a ProjectRAGService object exists and answers:
\* constructed, or at a step of a rebuild (load_data and prepare_embeddings
\* called again on it).
Serving ==
  {"ready", "read", "summary_filled", "description_filled", "loaded", "unfitted", "fitted",
   "rebuilt", "rebuild_failed"}

\* rag_service.find_similar_projects(user_idea, limit) on a constructed
\* service, with no other thread at work between its first line and its
\* return.
Query(user_idea, limit) ==
  /\ app = "rag" /\ pc \in Serving
  /\ LET call == Call(user_idea, limit,
                      FindSimilarProjects(projects_df, vectorizer, tfidf_matrix,
                                          user_idea, limit, env))
     IN /\ last' = call
        /\ first' = Remember(call)
  /\ UNCHANGED <<app, calls, env, csv, df, cache, ui, pc, projects_df, vectorizer, tfidf_matrix, track, http, public_api, net, session_state>>

\* The threads that serve find_similar_projects at the same time (the
\* server of rag_api.py handles each request on a thread of its own).
ServiceThreads == {"Thread-1", "Thread-2"}

\* No call in progress on any of the threads.
NoCalls(threads) == [t \in threads |-> None]

\* The call of thread t ends with `outcome`: the list returned at line 97,
\* or the exception that escapes find_similar_projects.
EndCall(t, user_idea, limit, outcome) ==
  /\ calls' = [calls EXCEPT ![t] = None]
  /\ last' = Call(user_idea, limit, outcome)
  /\ first' = Remember(Call(user_idea, limit, outcome))

\* Thread t calls find_similar_projects(user_idea, limit) and runs line 68:
\* query_vector = self.vectorizer.transform([user_idea]).
TransformIdea(t, user_idea, limit) ==
  /\ app = "rag" /\ pc \in Serving
  /\ t \in DOMAIN calls /\ calls[t] = None
  /\ \E transformed \in {QueryVector(vectorizer, user_idea)} :
       IF transformed.raised THEN EndCall(t, user_idea, limit, transformed)
       ELSE /\ calls' = [calls EXCEPT ![t] =
                           [user_idea |-> user_idea, limit |-> limit, line |-> 71,
                            query_vector |-> transformed.query_vector]]
            /\ UNCHANGED <<first, last>>
  /\ UNCHANGED <<app, env, csv, df, cache, ui, pc, projects_df, vectorizer, tfidf_matrix, track, http, public_api, net, session_state>>

\* The call at line 77, the head of the loop: its similarities (71), its
\* top_indices still to visit (74) and its results so far (76).
AtLoop(call, similarities) ==
  [user_idea |-> call.user_idea, limit |-> call.limit, line |-> 77,
   similarities |-> similarities,
   top_indices |-> TopIndices(similarities, call.limit, env.ties),
   results |-> <<>>]

\* Lines 71-76 with `similarities` kept where every thread reads it (a field
\* of the service): the calls that are in the loop go on with the
\* similarities of this one.
ComputeSimilaritiesOnSelf(t) ==
  /\ app = "rag" /\ pc \in Serving
  /\ t \in DOMAIN calls /\ calls[t] # None
  /\ calls[t].line = 71
  /\ \E scored \in {Similarities(calls[t].query_vector, tfidf_matrix)} :
       IF scored.raised THEN EndCall(t, calls[t].user_idea, calls[t].limit, scored)
       ELSE /\ calls' = [u \in DOMAIN calls |->
                           IF u = t THEN AtLoop(calls[t], scored.similarities)
                           ELSE IF calls[u] = None THEN None
                           ELSE IF calls[u].line = 77
                             THEN [calls[u] EXCEPT !.similarities = scored.similarities]
                           ELSE calls[u]]
            /\ UNCHANGED <<first, last>>
  /\ UNCHANGED <<app, env, csv, df, cache, ui, pc, projects_df, vectorizer, tfidf_matrix, track, http, public_api, net, session_state>>

\* Thread t runs lines 71-76:
\* similarities = cosine_similarity(query_vector, self.tfidf_matrix).flatten(),
\* which reads self.tfidf_matrix, then top_indices and results = [], made
\* of locals of the call.
ComputeSimilarities(t) ==
  /\ app = "rag" /\ pc \in Serving
  /\ t \in DOMAIN calls /\ calls[t] # None
  /\ calls[t].line = 71
  /\ \E scored \in {Similarities(calls[t].query_vector, tfidf_matrix)} :
       IF scored.raised THEN EndCall(t, calls[t].user_idea, calls[t].limit, scored)
       ELSE /\ calls' = [calls EXCEPT ![t] = AtLoop(calls[t], scored.similarities)]
            /\ UNCHANGED <<first, last>>
  /\ UNCHANGED <<app, env, csv, df, cache, ui, pc, projects_df, vectorizer, tfidf_matrix, track, http, public_api, net, session_state>>

\* Thread t runs one turn of the loop (77-95) for the next of its
\* top_indices: below the threshold nothing is done; above it the row is
\* read from self.projects_df as it is now (79) and the result appended,
\* or the exception of the read escapes the call.
AppendMatch(t) ==
  /\ app = "rag" /\ pc \in Serving
  /\ t \in DOMAIN calls /\ calls[t] # None
  /\ calls[t].line = 77 /\ calls[t].top_indices # <<>>
  /\ LET idx == Head(calls[t].top_indices)
         next == [calls[t] EXCEPT !.top_indices = Tail(@)]
     IN IF ~AboveThreshold(calls[t].similarities[idx])
          THEN calls' = [calls EXCEPT ![t] = next] /\ UNCHANGED <<first, last>>
        ELSE \E made \in {MatchOfRow(idx, calls[t].similarities, projects_df.rows,
                                      calls[t].user_idea, env)} :
               IF made.raised THEN EndCall(t, calls[t].user_idea, calls[t].limit, made)
               ELSE /\ calls' = [calls EXCEPT ![t] =
                                   [next EXCEPT !.results = Append(@, made.result)]]
                    /\ UNCHANGED <<first, last>>
  /\ UNCHANGED <<app, env, csv, df, cache, ui, pc, projects_df, vectorizer, tfidf_matrix, track, http, public_api, net, session_state>>

\* Thread t has visited all its top_indices and runs line 97: return results.
ReturnMatches(t) ==
  /\ app = "rag" /\ pc \in Serving
  /\ t \in DOMAIN calls /\ calls[t] # None
  /\ calls[t].line = 77 /\ calls[t].top_indices = <<>>
  /\ EndCall(t, calls[t].user_idea, calls[t].limit,
             [raised |-> FALSE, error |-> "", results |-> calls[t].results])
  /\ UNCHANGED <<app, env, csv, df, cache, ui, pc, projects_df, vectorizer, tfidf_matrix, track, http, public_api, net, session_state>>

\* A ProjectRAGService before its construction, its file and its build
\* chosen.
RagStart ==
  /\ app = "rag"
  /\ env \in Envs
  /\ csv \in CsvFiles
  /\ pc = "new"
  /\ projects_df = None /\ vectorizer = None /\ tfidf_matrix = None
  /\ df = None /\ cache = <<>> /\ ui = <<>> /\ http = None
  /\ public_api = None /\ net = None /\ session_state = None
  /\ first = None /\ last = None

InitRag ==
  /\ RagStart
  /\ track = FALSE
  /\ calls = <<>>

(***************************************************************************)
(* streamlit_app_production.py: find_similar_projects and its caller.      *)
(***************************************************************************)

\* preprocess_text: '' for an empty text; else lowercase, every character
\* outside [a-zA-Z0-9\s] replaced by a space, whitespace collapsed.
ProdPreprocessText(text) ==
  IF text = <<>> THEN <<>>
  ELSE Flatten([i \in 1..Len(text) |-> WordTable[text[i]].alnum])

\* The rows of df_out.csv: it has the columns name, description and
\* ai_summary, and none of the columns load_enhanced_data adds.
ProdFilePool ==
  { [name |-> <<"Helper">>, description |-> <<"chatbot", "support.">>,
     ai_summary |-> <<"AI", "chatbot">>],
    [name |-> <<"Desk">>, description |-> <<"crm", "support">>, ai_summary |-> <<>>],
    [name |-> <<"AI", "tracker">>, description |-> <<>>, ai_summary |-> <<>>] }

\* df['detailed_description'] = df['description'] for a file without the
\* column, and fillna('').
WithDetailedDescription(row) ==
  [name |-> row.name, description |-> row.description,
   detailed_description |-> row.description, ai_summary |-> row.ai_summary]

\* The rows load_enhanced_data returns.
ProdPool == {WithDetailedDescription(row) : row \in ProdFilePool}

ProdFrames == {[rows |-> c] : c \in SeqsUpTo(ProdPool, MaxProdDocs)}

\* The description_parts of a row, joined: each field that is truthy (the
\* architecture, components, features and technology fields are '' here).
ProdDescription(row) ==
  ProdPreprocessText(row.description \o row.detailed_description \o row.ai_summary)

\* TfidfVectorizer(max_features=2000, stop_words='english', ngram_range=(1, 3),
\* min_df=1, max_df=0.95)
ProdConfig == [stop |-> EnglishStopWords, ngram_max |-> 3, min_df |-> 1, max_df_pct |-> 95]

\* round(similarities[idx] * 100, 1), in tenths of a percent.
ProdScore(sim) == (sim + One \div 2000) \div (One \div 1000)

RECURSIVE ProdCollect(_, _, _)
\* The loop over top_indices: the rows above the threshold, each with its
\* similarity_score.
ProdCollect(indices, sims, rows) ==
  IF indices = <<>> THEN <<>>
  ELSE LET idx == Head(indices)
           rest == ProdCollect(Tail(indices), sims, rows)
       IN IF AboveThreshold(sims[idx])
            THEN << [project |-> rows[idx], similarity_score |-> ProdScore(sims[idx])] >> \o rest
            ELSE rest

\* An except clause that lets the exception go on to the caller.
ProdReraise(error) ==
  [raised |-> TRUE, results |-> <<>>, messages |-> <<>>]

\* What the except clause of find_similar_projects does with the exception
\* raised inside the try block: st.error and an empty list.
ProdExcept(error) ==
  [raised |-> FALSE, results |-> <<>>,
   messages |-> << [level |-> "error", text |-> "Error in similarity analysis", cause |-> error] >>]

\* find_similar_projects(user_query, df, top_k): the list returned (or the
\* exception that escapes) and the messages it shows.
ProdFindSimilarProjects(user_query, frame, top_k, e) ==
  IF frame.rows = <<>> THEN [raised |-> FALSE, results |-> <<>>, messages |-> <<>>]
  ELSE LET processed_query == ProdPreprocessText(user_query)
           project_descriptions == [i \in 1..Len(frame.rows) |-> ProdDescription(frame.rows[i])]
           fit == FitTransform(project_descriptions, ProdConfig)
       IN IF ~fit.ok THEN ProdExcept(fit.error)
          ELSE LET similarities ==
                     CosineSimilarity(Transform(fit.vectorizer, processed_query), fit.matrix)
               IN [raised |-> FALSE,
                   results |-> ProdCollect(TopIndices(similarities, top_k, e.ties),
                                           similarities, frame.rows),
                   messages |-> <<>>]

DefaultTopK == 5

\* The ideas typed into the page.
ProdQueries == {<<>>, <<"!!!">>, <<"tracker">>, <<"AI", "chatbot">>, <<"crm", "chatbot">>}

\* A direct call find_similar_projects(user_query, df, top_k).
ProdCall(user_query, top_k) ==
  /\ app = "prod"
  /\ LET out == ProdFindSimilarProjects(user_query, df, top_k, env)
         call == Call(user_query, top_k, out)
     IN /\ last' = call
        /\ first' = Remember(call)
        /\ ui' = out.messages
  /\ UNCHANGED <<app, calls, env, csv, df, cache, pc, projects_df, vectorizer, tfidf_matrix, track, http, public_api, net, session_state>>

\* What load_enhanced_data finds at its paths: no file, a file read_csv
\* cannot read, or df_out.csv with its rows.
ProdFiles ==
  {[exists |-> FALSE, readable |-> FALSE, rows |-> <<>>],
   [exists |-> TRUE, readable |-> FALSE, rows |-> <<>>]}
    \cup {[exists |-> TRUE, readable |-> TRUE, rows |-> c] :
            c \in SeqsUpTo(ProdFilePool, MaxProdDocs)}

\* load_enhanced_data(): the DataFrame (empty where there is no file or the
\* file cannot be read; the rows without a name dropped) and the messages
\* the function shows.
LoadEnhancedData(file) ==
  IF ~file.exists
    THEN [df |-> [rows |-> <<>>],
          messages |-> << [level |-> "error", text |-> "Dataset not found", cause |-> ""] >>]
  ELSE IF ~file.readable
    THEN [df |-> [rows |-> <<>>],
          messages |-> << [level |-> "error", text |-> "Error loading data", cause |-> "read_csv"] >>]
  ELSE LET named == SelectSeq(file.rows, LAMBDA row : row.name # <<>>)
       IN [df |-> [rows |-> [i \in 1..Len(named) |-> WithDetailedDescription(named[i])]],
           messages |-> << [level |-> "success",
                            text |-> "Successfully loaded projects from dataset",
                            cause |-> ""] >>]

\* partnership_potential of generate_real_engagement_strategies for a
\* similarity_score in tenths of a percent.
PartnershipPotential(similarity_score) ==
  IF similarity_score >= 800 THEN "Very High"
  ELSE IF similarity_score >= 600 THEN "High"
  ELSE IF similarity_score >= 400 THEN "Medium"
  ELSE "Low"

\* The messages display_real_project_matches shows for one match: the
\* warning of a project without any description (996), then the partnership
\* potential (1289-1294; a low one is shown with st.info).
MatchMessages(match) ==
  LET potential == PartnershipPotential(match.similarity_score)
  IN (IF IsBlank(match.project.detailed_description) /\ IsBlank(match.project.description)
        THEN << [level |-> "warning",
                 text |-> "No detailed description available for this project.",
                 cause |-> ""] >>
        ELSE <<>>)
     \o (IF potential \in {"Very High", "High"}
           THEN << [level |-> "success", text |-> "High Partnership Potential", cause |-> potential] >>
         ELSE IF potential = "Medium"
           THEN << [level |-> "warning", text |-> "Medium Partnership Potential", cause |-> potential] >>
         ELSE <<>>)

\* display_real_project_matches(similar_projects, user_query, df)
DisplayRealProjectMatches(similar_projects) ==
  Flatten([i \in 1..Len(similar_projects) |-> MatchMessages(similar_projects[i])])

\* show_real_ai_matcher with the button pressed: the page's run for one
\* user_query.  load_enhanced_data() (899) goes through st.cache_data: with
\* no entry the function runs and shows its messages; with an entry the
\* DataFrame stored is returned, and the messages the function showed are
\* shown again where the cache replays the elements of a cached call
\* (env.replay), and not where it only keeps the value.
ShowRealAiMatcher(user_query) ==
  /\ app = "prod"
  /\ IF IsBlank(user_query)
       THEN /\ ui' = << [level |-> "warning", text |-> "Please enter a project idea to analyze.", cause |-> ""] >>
            /\ UNCHANGED <<cache, first, last>>
     ELSE \E loaded \in {IF cache # <<>> THEN cache[1] ELSE LoadEnhancedData(csv)} :
          \E shown \in {IF cache # <<>> /\ ~env.replay THEN <<>> ELSE loaded.messages} :
            /\ cache' = <<loaded>>
            /\ IF loaded.df.rows = <<>>
                 THEN /\ ui' = shown \o << [level |-> "error", text |-> "No data available for analysis", cause |-> ""] >>
                      /\ UNCHANGED <<first, last>>
                 ELSE \E out \in {ProdFindSimilarProjects(user_query, loaded.df, DefaultTopK, env)} :
                        /\ last' = Call(user_query, DefaultTopK, out)
                        /\ first' = Remember(Call(user_query, DefaultTopK, out))
                        /\ ui' = shown \o out.messages \o
                                   IF out.results # <<>>
                                     THEN << [level |-> "success", text |-> "Found similar projects!", cause |-> ""] >>
                                            \o DisplayRealProjectMatches(out.results)
                                     ELSE << [level |-> "warning", text |-> "No similar projects found. Try a different description.", cause |-> ""] >>
  /\ UNCHANGED <<app, calls, env, csv, df, pc, projects_df, vectorizer, tfidf_matrix, track, http, public_api, net, session_state>>

\* 'Clear cache' of Streamlit's menu: st.cache_data holds no entry.
ClearCache ==
  /\ app = "prod" /\ cache # <<>>
  /\ cache' = <<>>
  /\ UNCHANGED <<app, calls, env, csv, df, ui, pc, projects_df, vectorizer, tfidf_matrix, track, first, last, http, public_api, net, session_state>>

\* The session after its first run, which shows the landing page: main
\* (1543-1546) has put load_enhanced_data() into st.session_state.df, the
\* cache holds the call, and its messages are on the page.
InitProd ==
  /\ app = "prod"
  /\ env \in [ties : TieOrders, hash_seed : {0}, replay : BOOLEAN]
  /\ csv \in ProdFiles
  /\ df = LoadEnhancedData(csv).df
  /\ cache = <<LoadEnhancedData(csv)>>
  /\ ui = LoadEnhancedData(csv).messages
  /\ http = None
  /\ public_api = None /\ net = None /\ session_state = None
  /\ pc = "page"
  /\ projects_df = None /\ vectorizer = None /\ tfidf_matrix = None
  /\ track = FALSE
  /\ first = None /\ last = None
  /\ calls = <<>>

NextProd ==
  \/ \E q \in ProdQueries, k \in Limits : ProdCall(q, k)
  \/ \E q \in ProdQueries : ShowRealAiMatcher(q)
  \/ ClearCache

(***************************************************************************)
(* streamlit_app_fixed.py: the uploader, load_project_data under           *)
(* st.cache_data, find_similar_projects.  scikit-learn is installed.       *)
(***************************************************************************)

\* The value of st.file_uploader: no file, or an uploaded CSV file with its
\* name and rows (columns name, detailed_description, no column twice; an
\* empty cell is NaN).  d.csv is an empty file, which read_csv refuses;
\* e.csv has the header line alone.
NoFile == [uploaded |-> FALSE, name |-> "", readable |-> FALSE, rows |-> <<>>]

UploadedFiles ==
  { [uploaded |-> TRUE, name |-> "a.csv", readable |-> TRUE,
     rows |-> << [name |-> <<"Helper">>, detailed_description |-> <<"chatbot", "support.">>],
                 [name |-> <<"Desk">>,   detailed_description |-> <<"crm", "support">>] >>],
    [uploaded |-> TRUE, name |-> "b.csv", readable |-> TRUE,
     rows |-> << [name |-> <<"Ledger">>, detailed_description |-> <<"crm", "tracker">>] >>],
    [uploaded |-> TRUE, name |-> "c.csv", readable |-> TRUE,
     rows |-> << [name |-> <<"Ledger">>, detailed_description |-> <<>>],
                 [name |-> <<"AI", "tracker">>, detailed_description |-> <<"the", "chatbot">>] >>],
    [uploaded |-> TRUE, name |-> "d.csv", readable |-> FALSE, rows |-> <<>>],
    [uploaded |-> TRUE, name |-> "e.csv", readable |-> TRUE, rows |-> <<>>] }

\* load_project_data(uploaded_file): the DataFrame with name renamed to
\* title and detailed_description to description, or None, and the messages
\* shown.
LoadProjectData(file) ==
  IF ~file.uploaded THEN [df |-> None, messages |-> <<>>]
  ELSE IF ~file.readable
    THEN [df |-> None,
          messages |-> << [level |-> "error", text |-> "Error loading CSV file", cause |-> "read_csv"] >>]
  ELSE [df |-> [rows |-> [i \in 1..Len(file.rows) |->
                            [title |-> file.rows[i].name,
                             description |-> file.rows[i].detailed_description]]],
        messages |-> << [level |-> "success", text |-> "Successfully loaded projects", cause |-> ""] >>]

\* A result of st.cache_data that answers whatever entry it holds, for any
\* argument.
StaleLoad(memo, file) ==
  IF DOMAIN memo # {} THEN memo[CHOOSE f \in DOMAIN memo : TRUE]
  ELSE LoadProjectData(file)

\* @st.cache_data: the entry stored for this argument (the file's name and
\* bytes are the key), else a run of the function.
CachedLoad(memo, file) ==
  IF file \in DOMAIN memo THEN memo[file] ELSE LoadProjectData(file)

\* preprocess_text of streamlit_app_fixed: '' for an empty text; else
\* lowercase, string.punctuation deleted, split, and the tokens kept that
\* are longer than 2 characters and (with NLTK) not stop words.
FixedPreprocessText(text, nltk) ==
  LET tokens == SelectTokens([i \in 1..Len(text) |-> WordTable[text[i]].nopunct], {""})
      long == SelectSeq(tokens, LAMBDA t : Len(t) > 2)
  IN IF nltk THEN SelectTokens(long, NltkStopWords) ELSE long

\* f"{row.get('title', '')} {row.get('description', '')} ..." : a NaN cell
\* is formatted as 'nan'; the category columns are absent.
FixedCombinedText(row) ==
  (IF row.title = <<>> THEN <<"nan">> ELSE row.title)
    \o (IF row.description = <<>> THEN <<"nan">> ELSE row.description)

\* TfidfVectorizer(max_features=1000, ngram_range=(1, 2)): no stop words,
\* min_df=1, max_df=1.0.
FixedConfig == [stop |-> {}, ngram_max |-> 2, min_df |-> 1, max_df_pct |-> 100]

RECURSIVE FixedCollect(_, _, _)
\* The loop over top_indices: the rows with similarity > 0.
FixedCollect(indices, sims, rows) ==
  IF indices = <<>> THEN <<>>
  ELSE LET idx == Head(indices)
           rest == FixedCollect(Tail(indices), sims, rows)
       IN IF sims[idx] > 0
            THEN << [title |-> rows[idx].title, description |-> rows[idx].description,
                     similarity_score |-> sims[idx]] >> \o rest
            ELSE rest

\* find_similar_projects(user_query, df, top_k) of streamlit_app_fixed.
FixedFindSimilarProjects(user_query, frame, top_k, e) ==
  IF frame = None THEN [raised |-> FALSE, results |-> <<>>, messages |-> <<>>]
  ELSE IF frame.rows = <<>> THEN [raised |-> FALSE, results |-> <<>>, messages |-> <<>>]
  ELSE LET processed_query == FixedPreprocessText(user_query, e.nltk)
           project_texts == [i \in 1..Len(frame.rows) |->
                               FixedPreprocessText(FixedCombinedText(frame.rows[i]), e.nltk)]
           fit == FitTransform(project_texts, FixedConfig)
       IN IF ~fit.ok
            THEN [raised |-> FALSE, results |-> <<>>,
                  messages |-> << [level |-> "error", text |-> "Error in similarity matching",
                                   cause |-> fit.error] >>]
          ELSE LET similarities ==
                     CosineSimilarity(Transform(fit.vectorizer, processed_query), fit.matrix)
               IN [raised |-> FALSE,
                   results |-> FixedCollect(TopIndices(similarities, top_k, e.ties),
                                            similarities, frame.rows),
                   messages |-> <<>>]

FixedTopK == 3

FixedQueries == {<<>>, <<"crm">>, <<"the", "tracker">>, <<"chatbot", "support">>}

\* A run of the script from its first line with the uploader holding
\* `file`: line 306 loads the data through the cache.
ScriptRun(file) ==
  LET loaded == CachedLoad(cache, file)
  IN /\ df' = loaded.df
     /\ cache' = IF file \in DOMAIN cache THEN cache ELSE (file :> loaded) @@ cache

\* Without nltk the st.warning of line 34 is the first Streamlit command of
\* the run and st.set_page_config (37) comes after it: a Streamlit that
\* requires set_page_config to be the first command raises
\* StreamlitAPIException there and the run ends; nothing below line 37 is
\* drawn.
StopsAtPageConfig(e) == ~e.nltk /\ e.page_config_first

\* The st.warning / st.success / st.error messages of one run of the
\* script, in the order of its lines: the warning of the failed nltk import
\* (34), the exception of set_page_config (37) where the run ends there,
\* else the messages of load_project_data (306), and then either the page
\* of a DataFrame with rows (308), which answers the pressed button (373),
\* or the request for a file (475).
FixedRunMessages(loaded, pressed, user_query, e) ==
  LET nltk_warning ==
        IF e.nltk THEN <<>>
        ELSE << [level |-> "warning",
                 text |-> "NLTK not available. Text processing features will be limited.",
                 cause |-> ""] >>
      has_rows == IF loaded.df = None THEN FALSE ELSE loaded.df.rows # <<>>
      out == FixedFindSimilarProjects(user_query, loaded.df, FixedTopK, e)
  IN IF StopsAtPageConfig(e)
       THEN nltk_warning \o
              << [level |-> "exception",
                  text |-> "set_page_config() can only be called once per app page, and must be called as the first Streamlit command in your script.",
                  cause |-> "StreamlitAPIException"] >>
     ELSE
     nltk_warning \o loaded.messages \o
       (IF ~has_rows
          THEN << [level |-> "warning",
                   text |-> "Please upload your project CSV file to see the analytics dashboard.",
                   cause |-> ""] >>
        ELSE IF ~pressed THEN <<>>
        ELSE IF IsBlank(user_query)
          THEN << [level |-> "warning",
                   text |-> "Please describe your project idea to find similar projects.",
                   cause |-> ""] >>
        ELSE out.messages \o
               (IF out.results # <<>>
                  THEN << [level |-> "success", text |-> "Found similar projects!",
                           cause |-> "", count |-> Len(out.results)] >>
                  ELSE << [level |-> "warning",
                           text |-> "No similar projects found. Try describing your idea in more detail or using different keywords.",
                           cause |-> ""] >>))

\* The user puts another file into the uploader (drawn by a run that got
\* past line 37), or clears it: the script runs again; what the previous run
\* showed is gone.
Upload(file) ==
  /\ app = "fixed" /\ ~StopsAtPageConfig(env)
  /\ file # csv
  /\ csv' = file
  /\ ScriptRun(file)
  /\ ui' = FixedRunMessages(CachedLoad(cache, file), FALSE, <<>>, env)
  /\ last' = None
  /\ UNCHANGED <<app, calls, env, pc, projects_df, vectorizer, tfidf_matrix, track, first, http, public_api, net, session_state>>

\* The user presses the button (drawn by a run that got past line 37) with
\* user_query typed: the script runs again; with a non-empty df and a
\* non-blank query, line 377 calls
\* find_similar_projects(user_query, df, top_k=3) on the df of this run.
FixedQuery(user_query) ==
  /\ app = "fixed" /\ ~StopsAtPageConfig(env)
  /\ ScriptRun(csv)
  /\ LET loaded == CachedLoad(cache, csv)
         asked == IF loaded.df = None THEN FALSE
                  ELSE loaded.df.rows # <<>> /\ ~IsBlank(user_query)
         out == FixedFindSimilarProjects(user_query, loaded.df, FixedTopK, env)
     IN /\ ui' = FixedRunMessages(loaded, TRUE, user_query, env)
        /\ last' = IF asked THEN Call(user_query, FixedTopK, out) ELSE None
  /\ UNCHANGED <<app, calls, env, csv, pc, projects_df, vectorizer, tfidf_matrix, track, first, http, public_api, net, session_state>>

\* The first run of the page: nothing uploaded, and the run has shown its
\* messages.  The build says whether nltk is installed and, where it is
\* not, whether its Streamlit requires set_page_config to be the first
\* command; a run that ends at line 37 has loaded nothing.
InitFixed ==
  /\ app = "fixed"
  /\ env \in {e \in [ties : TieOrders, hash_seed : {0}, nltk : BOOLEAN,
                      page_config_first : BOOLEAN] : e.nltk => e.page_config_first}
  /\ csv = NoFile
  /\ cache = IF StopsAtPageConfig(env) THEN <<>> ELSE (NoFile :> LoadProjectData(NoFile))
  /\ df = None /\ http = None
  /\ ui = FixedRunMessages(LoadProjectData(NoFile), FALSE, <<>>, env)
  /\ public_api = None /\ net = None /\ session_state = None
  /\ pc = "page"
  /\ projects_df = None /\ vectorizer = None /\ tfidf_matrix = None
  /\ track = FALSE
  /\ first = None /\ last = None
  /\ calls = <<>>

NextFixed ==
  \/ \E file \in UploadedFiles \cup {NoFile} : Upload(file)
  \/ \E q \in FixedQueries : FixedQuery(q)

SpecFixed == InitFixed /\ [][NextFixed]_vars

(***************************************************************************)
(* A rebuild of a ProjectRAGService: load_data() and prepare_embeddings()  *)
(* called again on the object while find_similar_projects is served from   *)
(* other threads.  Each step is one assignment to a field of the object.   *)
(***************************************************************************)

\* The files a rebuild reads.
RebuildFiles ==
  {[readable |-> TRUE, rows |-> c] :
     c \in {d \in SeqsUpTo({r \in RecordPool : r.name # <<>>}, MaxDocs) : Len(d) >= MaxDocs - 1}}

\* load_data (28): self.projects_df = pd.read_csv(self.csv_path), the file
\* now at csv_path with its empty cells NaN.
ReadCsvAgain(file) ==
  /\ app = "rag" /\ pc = "ready"
  /\ csv' = file
  /\ projects_df' = [rows |-> ReadCsv(file.rows)]
  /\ pc' = "read"
  /\ UNCHANGED <<app, calls, env, vectorizer, tfidf_matrix, df, cache, ui, track, first, last, http, public_api, net, session_state>>

\* One fillna line of load_data (32, 33, 34), which assigns a column of
\* self.projects_df in place.
FillColumn(at, column, value, then) ==
  /\ app = "rag" /\ pc = at
  /\ projects_df' = [rows |-> FillNa(projects_df.rows, column, value)]
  /\ pc' = then
  /\ UNCHANGED <<app, calls, env, csv, vectorizer, tfidf_matrix, df, cache, ui, track, first, last, http, public_api, net, session_state>>

\* load_data (32)
FillAiSummary == FillColumn("read", "ai_summary", <<>>, "summary_filled")

\* load_data (33)
FillDescription == FillColumn("summary_filled", "description", <<>>, "description_filled")

\* load_data (34)
FillName == FillColumn("description_filled", "name", <<"Unknown", "Project">>, "loaded")

\* prepare_embeddings (52-58): self.vectorizer = TfidfVectorizer(...), not
\* fitted yet.
NewVectorizer ==
  /\ app = "rag" /\ pc = "loaded"
  /\ vectorizer' = [fitted |-> FALSE]
  /\ pc' = "unfitted"
  /\ UNCHANGED <<app, calls, env, csv, projects_df, tfidf_matrix, df, cache, ui, track, first, last, http, public_api, net, session_state>>

\* prepare_embeddings (61), the call: fit_transform fits self.vectorizer in
\* place; its ValueError ends the rebuild and leaves the fields as they are.
FitInPlace ==
  /\ app = "rag" /\ pc = "unfitted"
  /\ LET fit == FitTransform(TextData(projects_df.rows), RagConfig)
     IN IF fit.ok
          THEN vectorizer' = fit.vectorizer /\ pc' = "fitted"
          ELSE vectorizer' = vectorizer /\ pc' = "rebuild_failed"
  /\ UNCHANGED <<app, calls, env, csv, projects_df, tfidf_matrix, df, cache, ui, track, first, last, http, public_api, net, session_state>>

\* prepare_embeddings (61), the assignment: self.tfidf_matrix = the matrix
\* fit_transform returned.
AssignMatrix ==
  /\ app = "rag" /\ pc = "fitted"
  /\ tfidf_matrix' = [rows |-> FitTransform(TextData(projects_df.rows), RagConfig).matrix]
  /\ pc' = "rebuilt"
  /\ UNCHANGED <<app, calls, env, csv, projects_df, vectorizer, df, cache, ui, track, first, last, http, public_api, net, session_state>>

\* The queries sent while a service is rebuilt, and the ones repeated.
ProbeQueries == {<<"AI", "chatbot">>, <<"chatbot", "support">>}

\* The thread that sends queries while another thread rebuilds the service.
QueryThread == "Thread-1"

\* The service is constructed on a file of MaxDocs rows.
InitRebuild ==
  /\ RagStart
  /\ csv \in {f \in RebuildFiles : Len(f.rows) = MaxDocs}
  /\ track = FALSE
  /\ calls = NoCalls({QueryThread})

NextRebuild ==
  \/ Construct
  \/ \E file \in RebuildFiles : ReadCsvAgain(file)
  \/ FillAiSummary
  \/ FillDescription
  \/ FillName
  \/ NewVectorizer
  \/ FitInPlace
  \/ AssignMatrix
  \/ \E q \in ProbeQueries, k \in Limits : TransformIdea(QueryThread, q, k)
  \/ ComputeSimilarities(QueryThread)
  \/ AppendMatch(QueryThread)
  \/ ReturnMatches(QueryThread)

SpecRebuild == InitRebuild /\ [][NextRebuild]_vars

(***************************************************************************)
(* Repeated queries on one service, from two threads.                      *)
(***************************************************************************)
\* The service is constructed on a file of MaxDocs rows that has the four
\* link columns.
InitRepeat ==
  /\ RagStart
  /\ Len(csv.rows) = MaxDocs
  /\ \A i \in 1..Len(LinkColumns) : LinkColumns[i] \in DOMAIN csv.rows[1]
  /\ track = TRUE
  /\ calls = NoCalls(ServiceThreads)

NextRepeat ==
  \/ Construct
  \/ \E t \in ServiceThreads :
       \/ \E q \in ProbeQueries, k \in Limits : TransformIdea(t, q, k)
       \/ ComputeSimilarities(t)
       \/ AppendMatch(t)
       \/ ReturnMatches(t)

SpecRepeat == InitRepeat /\ [][NextRepeat]_vars

(***************************************************************************)
(* GitHub links: extract_github_url (streamlit_app_production),            *)
(* extract_github_url_enhanced (streamlit_app_enhanced), extract_github_url*)
(* (streamlit_app_fixed) and the github_url of a match.                    *)
(*                                                                         *)
(* A string is the sequence of its pieces; each piece is read by the       *)
(* patterns as a whole: a scheme, the host with its slash, a word of       *)
(* letters, or one punctuation character or space.                         *)
(***************************************************************************)
Schemes == {"https://", "http://"}
WordPieces == {"acme", "tool", "see", "GitHub", "URL", "Repository"}
\* [a-zA-Z0-9-]
OwnerClass == WordPieces
\* [a-zA-Z0-9-_.]
RepoClass == WordPieces \cup {"."}
\* [^\s\)]
NotSpaceOrParen ==
  WordPieces \cup Schemes \cup {"github.com/", "GitHub.com/", "/", ".", "(", "@", ":"}

\* A cell of a record or an argument: None, NaN, or a str.
PyNone == [kind |-> "none", text |-> <<>>]
PyNaN == [kind |-> "nan", text |-> <<>>]
PyStr(text) == [kind |-> "str", text |-> text]

RECURSIVE RunEnd(_, _, _)
\* The last position of the longest run of pieces of `class` that starts at
\* i (i - 1 if there is none): a greedy [class]*.
RunEnd(text, i, class) ==
  IF i <= Len(text) /\ text[i] \in class THEN RunEnd(text, i + 1, class) ELSE i - 1

\* The end of a match of  host [owner]+ / [repo]+  at i, or 0.
RepoPathEnd(text, i, hosts) ==
  IF i > Len(text) \/ text[i] \notin hosts THEN 0
  ELSE LET j == RunEnd(text, i + 1, OwnerClass)
       IN IF j < i + 1 \/ j + 1 > Len(text) \/ text[j + 1] # "/" THEN 0
          ELSE LET k == RunEnd(text, j + 2, RepoClass)
               IN IF k < j + 2 THEN 0 ELSE k

\* The end of a match at i of pattern number n of the production and
\* enhanced lists, or 0:
\*   1  https?://github\.com/[a-zA-Z0-9-]+/[a-zA-Z0-9-_.]+
\*   2  github\.com/[a-zA-Z0-9-]+/[a-zA-Z0-9-_.]+
\*   3  @([a-zA-Z0-9-]+/[a-zA-Z0-9-_.]+)
PatternEnd(text, i, n) ==
  IF n = 1 THEN IF text[i] \in Schemes THEN RepoPathEnd(text, i + 1, {"github.com/"}) ELSE 0
  ELSE IF n = 2 THEN RepoPathEnd(text, i, {"github.com/"})
  ELSE RepoPathEnd(text, i, {"@"})

\* re.search(pattern, text).group(0): the leftmost match, <<>> if none.
Search(text, n) ==
  LET hits == {i \in 1..Len(text) : PatternEnd(text, i, n) > 0}
  IN IF hits = {} THEN <<>>
     ELSE LET i == CHOOSE h \in hits : \A g \in hits : h <= g
          IN SubSeq(text, i, PatternEnd(text, i, n))

\* if not url.startswith('http'): url = 'https://' + url
WithScheme(url) == IF url[1] \in Schemes THEN url ELSE <<"https://">> \o url

RECURSIVE FirstPattern(_, _, _)
\* The loop over the patterns: the first pattern, from number n to `count`,
\* that matches gives the url; None if no pattern matches.
FirstPattern(text, n, count) ==
  IF n > count THEN [raised |-> FALSE, none |-> TRUE, url |-> <<>>, pattern |-> 0]
  ELSE IF Search(text, n) # <<>>
    THEN [raised |-> FALSE, none |-> FALSE, url |-> WithScheme(Search(text, n)), pattern |-> n]
  ELSE FirstPattern(text, n + 1, count)

\* extract_github_url of streamlit_app_production: pd.isna or '' gives None.
ExtractGithubUrl(description) ==
  IF description.kind # "str" \/ description.text = <<>>
    THEN [raised |-> FALSE, none |-> TRUE, url |-> <<>>, pattern |-> 0]
  ELSE FirstPattern(description.text, 1, 2)

\* extract_github_url_enhanced: `not text` is true of None and of '', not
\* of NaN, which re.search refuses with a TypeError.
ExtractGithubUrlEnhanced(text) ==
  IF text.kind = "none" \/ (text.kind = "str" /\ text.text = <<>>)
    THEN [raised |-> FALSE, none |-> TRUE, url |-> <<>>, pattern |-> 0]
  ELSE IF text.kind = "nan"
    THEN [raised |-> TRUE, none |-> FALSE, url |-> <<>>, pattern |-> 0]
  ELSE FirstPattern(text.text, 1, 3)

\* The end of a match at i of pattern number n of streamlit_app_fixed
\* (re.IGNORECASE), or 0, and where the text that findall reports begins:
\*   1  https?://github\.com/[^\s\)]+         the whole match
\*   2  github\.com/[^\s\)]+                  the whole match
\*   3  GitHub URL[:\s]*([^\s\)]+)            the group
\*   4  GitHub Repository[:\s]*([^\s\)]+)     the group
\* [:\s]* takes the longest run of colons and spaces that still leaves the
\* group a first character.
FixedPatternSpan(text, i, n) ==
  LET Hosts == {"github.com/", "GitHub.com/"}
      Tail2(word) ==
        IF i + 2 > Len(text) \/ text[i] # "GitHub" \/ text[i + 1] # " " \/ text[i + 2] # word
          THEN [from |-> 0, to |-> 0]
        ELSE LET j == RunEnd(text, i + 3, {":", " "})
                 starts == {g \in (i + 3)..(j + 1) : g <= Len(text) /\ text[g] \in NotSpaceOrParen}
             IN IF starts = {} THEN [from |-> 0, to |-> 0]
                ELSE LET g == CHOOSE x \in starts : \A y \in starts : x >= y
                     IN [from |-> g, to |-> RunEnd(text, g, NotSpaceOrParen)]
      Path(h) ==
        IF h > Len(text) \/ text[h] \notin Hosts \/ RunEnd(text, h + 1, NotSpaceOrParen) < h + 1
          THEN [from |-> 0, to |-> 0]
        ELSE [from |-> i, to |-> RunEnd(text, h + 1, NotSpaceOrParen)]
  IN IF n = 1 THEN IF text[i] \in Schemes THEN Path(i + 1) ELSE [from |-> 0, to |-> 0]
     ELSE IF n = 2 THEN Path(i)
     ELSE IF n = 3 THEN Tail2("URL")
     ELSE Tail2("Repository")

\* re.findall(pattern, description, re.IGNORECASE)[0], <<>> if it is empty.
FixedFindFirst(text, n) ==
  LET hits == {i \in 1..Len(text) : FixedPatternSpan(text, i, n).to > 0}
  IN IF hits = {} THEN <<>>
     ELSE LET i == CHOOSE h \in hits : \A g \in hits : h <= g
              span == FixedPatternSpan(text, i, n)
          IN SubSeq(text, span.from, span.to)

RECURSIVE FixedFirstPattern(_, _)
\* The loop over the four patterns of streamlit_app_fixed.
FixedFirstPattern(text, n) ==
  IF n > 4 THEN [raised |-> FALSE, none |-> TRUE, url |-> <<>>, pattern |-> 0]
  ELSE IF FixedFindFirst(text, n) # <<>>
    THEN [raised |-> FALSE, none |-> FALSE, url |-> WithScheme(FixedFindFirst(text, n)),
          pattern |-> n]
  ELSE FixedFirstPattern(text, n + 1)

\* extract_github_url of streamlit_app_fixed.
FixedExtractGithubUrl(description) ==
  IF description.kind # "str" \/ description.text = <<>>
    THEN [raised |-> FALSE, none |-> TRUE, url |-> <<>>, pattern |-> 0]
  ELSE FixedFirstPattern(description.text, 1)

\* bool(cell) for a cell of a record: None and '' are false, NaN and any
\* other str are true.
Truthy(cell) == cell.kind = "nan" \/ (cell.kind = "str" /\ cell.text # <<>>)

\* What an extractor's outcome is as a value.
AsCell(out) == IF out.none THEN PyNone ELSE PyStr(out.url)

\* The github_url of a match of streamlit_app_production (793-794): set
\* from the description only if the record has none.
ProdMatchGithubUrl(project) ==
  IF ~Truthy(project.github_url) /\ Truthy(project.description)
    THEN [raised |-> FALSE, github_url |-> AsCell(ExtractGithubUrl(project.description))]
    ELSE [raised |-> FALSE, github_url |-> project.github_url]

\* The github_url of a match of streamlit_app_enhanced (379): always the
\* outcome of the extractor on the description.
EnhancedMatchGithubUrl(project) ==
  LET out == ExtractGithubUrlEnhanced(project.description)
  IN IF out.raised THEN [raised |-> TRUE, github_url |-> PyNone]
     ELSE [raised |-> FALSE, github_url |-> AsCell(out)]

\* The github_url of a match of streamlit_app_fixed (287, 295): always the
\* outcome of the extractor on the description.
FixedMatchGithubUrl(project) ==
  [raised |-> FALSE, github_url |-> AsCell(FixedExtractGithubUrl(project.description))]

\* The descriptions: text before, a reference or none, text after.
TextBefore == {<<>>, <<"see", " ">>, <<"(">>, <<"GitHub", " ", "URL", ":", " ">>}
References ==
  {<<>>,
   <<"https://", "github.com/", "acme", "/", "tool">>,
   <<"http://", "github.com/", "acme", "/", "tool">>,
   <<"github.com/", "acme", "/", "tool">>,
   <<"https://", "GitHub.com/", "acme", "/", "tool">>,
   <<"@", "acme", "/", "tool">>,
   <<"github.com/", "acme">>}
TextAfter == {<<>>, <<".">>, <<" ", "see">>, <<")">>, <<"/", "tool">>}

LinkDescriptions ==
  {PyNone, PyNaN} \cup {PyStr(b \o r \o a) : b \in TextBefore, r \in References, a \in TextAfter}

\* The github_url cell of a record: absent, '', NaN, or a URL of its own.
OwnUrls ==
  {PyNone, PyStr(<<>>), PyNaN, PyStr(<<"https://", "github.com/", "tool", "/", "acme">>)}

\* One function applied to the record in df; `last` keeps which and what
\* came of it.
Apply(fn, outcome) ==
  /\ app = "links"
  /\ last' = [fn |-> fn, outcome |-> outcome]
  /\ UNCHANGED <<app, calls, env, csv, pc, projects_df, vectorizer, tfidf_matrix, df, cache, ui,
                 http, public_api, net,
                 session_state, track, first>>

CallExtractGithubUrl == Apply("extract_github_url", ExtractGithubUrl(df.rows[1].description))

CallExtractGithubUrlEnhanced ==
  Apply("extract_github_url_enhanced", ExtractGithubUrlEnhanced(df.rows[1].description))

CallFixedExtractGithubUrl ==
  Apply("fixed.extract_github_url", FixedExtractGithubUrl(df.rows[1].description))

BuildProdMatch == Apply("production.match", ProdMatchGithubUrl(df.rows[1]))

BuildEnhancedMatch == Apply("enhanced.match", EnhancedMatchGithubUrl(df.rows[1]))

BuildFixedMatch == Apply("fixed.match", FixedMatchGithubUrl(df.rows[1]))

InitLinks ==
  /\ app = "links"
  /\ env \in {e \in Envs : e.ties = "index_order" /\ e.hash_seed = 0}
  /\ df \in {[rows |-> <<[description |-> d, github_url |-> g]>>] : d \in LinkDescriptions, g \in OwnUrls}
  /\ csv = None /\ pc = "page"
  /\ projects_df = None /\ vectorizer = None /\ tfidf_matrix = None
  /\ cache = <<>> /\ ui = <<>> /\ http = None
  /\ public_api = None /\ net = None /\ session_state = None
  /\ track = FALSE
  /\ first = None /\ last = None
  /\ calls = <<>>

NextLinks ==
  \/ CallExtractGithubUrl
  \/ CallExtractGithubUrlEnhanced
  \/ CallFixedExtractGithubUrl
  \/ BuildProdMatch
  \/ BuildEnhancedMatch
  \/ BuildFixedMatch

SpecLinks == InitLinks /\ [][NextLinks]_vars

(***************************************************************************)
(* rag_service.py: _generate_match_reason on its own, for queries and      *)
(* records that share up to five words.                                    *)
(***************************************************************************)

RECURSIVE SubSeqsOf(_)
\* The texts made of some of the words of `text`, in its order.
SubSeqsOf(text) ==
  IF text = <<>> THEN {<<>>}
  ELSE LET rest == SubSeqsOf(Tail(text))
       IN rest \cup {<<Head(text)>> \o t : t \in rest}

ReasonIdeas == SubSeqsOf(<<"Helper", "ledger", "Desk", "chatbot", "crm", "AI", "support.">>)

ReasonProjects ==
  {[name |-> <<"Helper">>, ai_summary |-> a, description |-> d] :
     a \in SubSeqsOf(<<"helper", "Ledger", "ai">>),
     d \in SubSeqsOf(<<"desk", "chatbot", "support", "crm">>)}

\* self._generate_match_reason(user_idea, project) for the pair in df.
CallGenerateMatchReason ==
  /\ app = "reason"
  /\ last = None
  /\ last' = [fn |-> "_generate_match_reason",
              outcome |-> GenerateMatchReason(df.user_idea, df.project, env.hash_seed)]
  /\ UNCHANGED <<app, calls, env, csv, pc, projects_df, vectorizer, tfidf_matrix, df, cache, ui,
                 http, public_api, net,
                 session_state, track, first>>

InitReason ==
  /\ app = "reason"
  /\ env \in [ties : {"index_order"}, hash_seed : HashSeedsFor(ReasonIdeas, ReasonProjects)]
  /\ df \in {[user_idea |-> q, project |-> r] : q \in ReasonIdeas, r \in ReasonProjects}
  /\ csv = None /\ pc = "page"
  /\ projects_df = None /\ vectorizer = None /\ tfidf_matrix = None
  /\ cache = <<>> /\ ui = <<>> /\ http = None
  /\ public_api = None /\ net = None /\ session_state = None
  /\ track = FALSE
  /\ first = None /\ last = None
  /\ calls = <<>>

NextReason == CallGenerateMatchReason

SpecReason == InitReason /\ [][NextReason]_vars

(***************************************************************************)
(* rag_service.py on a corpus of three help-desk and supply-chain          *)
(* projects and one query about customer service tickets.                  *)
(***************************************************************************)
ScenarioTexts ==
  <<<<"AI", "chatbot", "for", "customer", "support", "using", "GPT", "models">>,
    <<"Blockchain-based", "supply", "chain", "tracker">>,
    <<"Customer", "support", "ticketing", "system", "with", "AI", "triage">>>>

ScenarioNames == <<<<"P1">>, <<"P2">>, <<"P3">>>>

ScenarioQuery ==
  <<"I", "want", "an", "AI", "assistant", "for", "handling", "customer", "service", "tickets.">>

\* The three projects as rows of the csv: each text is the row's ai_summary
\* or its description, the link cells are empty, and the rows are in any
\* order.
ScenarioFiles ==
  {[readable |-> TRUE,
    rows |-> [i \in 1..3 |->
                [name |-> ScenarioNames[order[i]],
                 ai_summary |-> IF i \in summarised THEN ScenarioTexts[order[i]] ELSE <<>>,
                 description |-> IF i \in summarised THEN <<>> ELSE ScenarioTexts[order[i]],
                 github_url |-> <<>>, project_url |-> <<>>, demo_url |-> <<>>,
                 github_stars |-> <<>>]]] :
     order \in {o \in [1..3 -> 1..3] : \A i, j \in 1..3 : o[i] = o[j] => i = j},
     summarised \in SUBSET (1..3)}

\* limit = 3 of main() and the default limit = 5.
ScenarioLimits == {3, 5}

InitScenario ==
  /\ app = "rag"
  /\ env \in Envs
  /\ csv \in ScenarioFiles
  /\ pc = "new"
  /\ projects_df = None /\ vectorizer = None /\ tfidf_matrix = None
  /\ df = None /\ cache = <<>> /\ ui = <<>> /\ http = None
  /\ public_api = None /\ net = None /\ session_state = None
  /\ track = FALSE
  /\ first = None /\ last = None
  /\ calls = <<>>

NextScenario ==
  \/ Construct
  \/ \E k \in ScenarioLimits : Query(ScenarioQuery, k)

SpecScenario == InitScenario /\ [][NextScenario]_vars

(***************************************************************************)
(* streamlit_app_production.py: analyze_technology_stack_real.             *)
(***************************************************************************)
\* tech_categories: each keyword is the sequence of its words.
TechCategories ==
  <<
    [category |-> "Frontend", keywords |-> <<
       <<"react">>, <<"vue">>, <<"angular">>, <<"javascript">>, <<"typescript">>,
       <<"html">>, <<"css">>, <<"svelte">>, <<"next.js">>, <<"nuxt">>>>],
    [category |-> "Backend", keywords |-> <<
       <<"python">>, <<"node.js">>, <<"django">>, <<"flask">>, <<"express">>,
       <<"java">>, <<"spring">>, <<"php">>, <<"laravel">>, <<"ruby">>, <<"rails">>>>],
    [category |-> "AI/ML", keywords |-> <<
       <<"machine", "learning">>, <<"artificial", "intelligence">>, <<"ai">>, <<"ml">>,
       <<"tensorflow">>, <<"pytorch">>, <<"scikit-learn">>, <<"neural", "network">>,
       <<"deep", "learning">>>>],
    [category |-> "Mobile", keywords |-> <<
       <<"ios">>, <<"android">>, <<"react", "native">>, <<"flutter">>, <<"swift">>,
       <<"kotlin">>, <<"mobile", "app">>>>],
    [category |-> "Cloud", keywords |-> <<
       <<"aws">>, <<"azure">>, <<"google", "cloud">>, <<"docker">>, <<"kubernetes">>,
       <<"microservices">>, <<"serverless">>>>],
    [category |-> "Data", keywords |-> <<
       <<"database">>, <<"sql">>, <<"mongodb">>, <<"postgresql">>, <<"redis">>,
       <<"elasticsearch">>, <<"data", "analytics">>, <<"big", "data">>>>],
    [category |-> "Blockchain", keywords |-> <<
       <<"blockchain">>, <<"ethereum">>, <<"bitcoin">>, <<"smart", "contract">>,
       <<"web3">>, <<"defi">>, <<"nft">>>>],
    [category |-> "IoT", keywords |-> <<
       <<"iot">>, <<"internet", "of", "things">>, <<"sensor">>, <<"arduino">>,
       <<"raspberry", "pi">>, <<"hardware">>>>]
  >>

\* business_models: each keyword is the sequence of its words.
BusinessModels ==
  <<
    [category |-> "SaaS", keywords |-> <<
       <<"saas">>, <<"software", "as", "a", "service">>, <<"subscription">>,
       <<"monthly">>, <<"annual">>>>],
    [category |-> "Marketplace", keywords |-> <<
       <<"marketplace">>, <<"platform">>, <<"connect">>, <<"buy">>, <<"sell">>,
       <<"exchange">>>>],
    [category |-> "E-commerce", keywords |-> <<
       <<"ecommerce">>, <<"e-commerce">>, <<"shop">>, <<"store">>, <<"payment">>,
       <<"checkout">>>>],
    [category |-> "Freemium", keywords |-> <<
       <<"freemium">>, <<"free", "tier">>, <<"premium">>, <<"upgrade">>>>],
    [category |-> "Enterprise", keywords |-> <<
       <<"enterprise">>, <<"b2b">>, <<"business">>, <<"corporate">>,
       <<"enterprise", "solution">>>>]
  >>

\* For each word of the texts: the one-word keywords it contains (`in` on
\* str is a substring test), the last words of longer keywords it starts
\* with, and the first words of longer keywords it ends with.
Fragments ==
  "based" :> [inside |-> {}, head |-> {}, tail |-> {}] @@
  "blockchain" :> [inside |-> {"ai", "blockchain"}, head |-> {}, tail |-> {}] @@
  "blockchain-based" :> [inside |-> {"ai", "blockchain"}, head |-> {}, tail |-> {}] @@
  "commerce" :> [inside |-> {}, head |-> {}, tail |-> {}] @@
  "e" :> [inside |-> {}, head |-> {}, tail |-> {}] @@
  "e-commerce" :> [inside |-> {"e-commerce"}, head |-> {}, tail |-> {}] @@
  "email" :> [inside |-> {"ai"}, head |-> {}, tail |-> {}] @@
  "javascript" :> [inside |-> {"java", "javascript"}, head |-> {}, tail |-> {}] @@
  "js" :> [inside |-> {}, head |-> {}, tail |-> {}] @@
  "learning" :> [inside |-> {}, head |-> {"learning"}, tail |-> {}] @@
  "machine" :> [inside |-> {}, head |-> {}, tail |-> {"machine"}] @@
  "nan" :> [inside |-> {}, head |-> {}, tail |-> {}] @@
  "node" :> [inside |-> {}, head |-> {}, tail |-> {}] @@
  "node.js" :> [inside |-> {"node.js"}, head |-> {}, tail |-> {}] @@
  "react" :> [inside |-> {"react"}, head |-> {}, tail |-> {"react"}] @@
  "saas" :> [inside |-> {"saas"}, head |-> {}, tail |-> {}] @@
  "shop" :> [inside |-> {"shop"}, head |-> {}, tail |-> {}] @@
  "subscription" :> [inside |-> {"subscription"}, head |-> {}, tail |-> {}]

\* `keyword in description`: the keyword is a substring of the text, which
\* is the words joined by single spaces.
Occurs(keyword, words) ==
  LET m == Len(keyword)
  IN \E i \in 1..(Len(words) - m + 1) :
       IF m = 1 THEN keyword[1] \in Fragments[words[i]].inside
       ELSE /\ keyword[1] \in Fragments[words[i]].tail
            /\ keyword[m] \in Fragments[words[i + m - 1]].head
            /\ \A j \in 2..(m - 1) : words[i + j - 1] = keyword[j]

\* str(project.get(key, '')): '' for an absent key, 'nan' for NaN.
StrOf(cell) == IF cell.kind = "nan" THEN <<"nan">> ELSE cell.text

\* The loop over a dictionary: one entry per category with a keyword in the
\* description, its confidence `weight` per keyword found, at most 100.
Detect(entries, description, weight) ==
  {[category |-> entries[c].category,
    confidence |-> Min(weight * Len(SelectSeq(entries[c].keywords,
                                              LAMBDA k : Occurs(k, description))), 100),
    keywords_found |-> SelectSeq(entries[c].keywords, LAMBDA k : Occurs(k, description))] :
     c \in {d \in 1..Len(entries) : \E i \in 1..Len(entries[d].keywords) :
                                      Occurs(entries[d].keywords[i], description)}}

\* analyze_technology_stack_real(project)
AnalyzeTechnologyStackReal(project) ==
  LET description == ProdPreprocessText(StrOf(project.description) \o StrOf(project.title))
      tech_stack == Detect(TechCategories, description, 10)
      business_model == Detect(BusinessModels, description, 15)
      total_technologies == Cardinality(tech_stack)
      complexity_score == Min(total_technologies * 15, 100)
  IN [tech_stack |-> tech_stack,
      business_model |-> business_model,
      complexity_score |-> complexity_score,
      innovation_level |-> IF complexity_score >= 80 THEN "High"
                           ELSE IF complexity_score >= 50 THEN "Medium" ELSE "Low",
      total_technologies |-> total_technologies,
      words_analyzed |-> Len(description)]

StackWords ==
  {"React", "JavaScript", "Node.js", "email", "machine", "learning", "SaaS", "subscription",
   "e-commerce", "shop", "Blockchain-based"}

StackProjects ==
  {[description |-> d, title |-> t] :
     d \in {PyStr(text) : text \in SeqsUpTo(StackWords, MaxStackWords)} \cup {PyNaN},
     t \in {PyNone, PyNaN, PyStr(<<"shop">>), PyStr(<<"learning">>)}}

CallAnalyzeTechnologyStackReal ==
  /\ app = "stack"
  /\ last = None
  /\ last' = [fn |-> "analyze_technology_stack_real",
              outcome |-> AnalyzeTechnologyStackReal(df.rows[1])]
  /\ UNCHANGED <<app, calls, env, csv, pc, projects_df, vectorizer, tfidf_matrix, df, cache, ui,
                 http, public_api, net,
                 session_state, track, first>>

InitStack ==
  /\ app = "stack"
  /\ env \in {e \in Envs : e.ties = "index_order" /\ e.hash_seed = 0}
  /\ df \in {[rows |-> <<project>>] : project \in StackProjects}
  /\ csv = None /\ pc = "page"
  /\ projects_df = None /\ vectorizer = None /\ tfidf_matrix = None
  /\ cache = <<>> /\ ui = <<>> /\ http = None
  /\ public_api = None /\ net = None /\ session_state = None
  /\ track = FALSE
  /\ first = None /\ last = None
  /\ calls = <<>>

NextStack == CallAnalyzeTechnologyStackReal

SpecStack == InitStack /\ [][NextStack]_vars

(***************************************************************************)
(* preprocess_text of streamlit_app_production and of streamlit_app_fixed  *)
(* on their own.  A text is its pieces joined by single spaces; the piece  *)
(* "  " is a run of whitespace.                                            *)
(***************************************************************************)
NormalizerWords == {"AI", "Node.js", "support.", "the", "!!!", "  ", "Helper", "e-commerce", "crm"}

NormalizerTexts ==
  {PyNone, PyNaN} \cup {PyStr(text) : text \in SeqsUpTo(NormalizerWords, MaxStackWords)}

\* preprocess_text(text) of streamlit_app_production for None, NaN or a str:
\* the words of the result.
ProdPreprocessCell(cell) ==
  IF cell.kind # "str" \/ cell.text = <<>> THEN [raised |-> FALSE, words |-> <<>>]
  ELSE [raised |-> FALSE, words |-> ProdPreprocessText(cell.text)]

\* preprocess_text(text) of streamlit_app_fixed for None, NaN or a str.
FixedPreprocessCell(cell, nltk) ==
  IF cell.kind # "str" \/ cell.text = <<>> THEN [raised |-> FALSE, words |-> <<>>]
  ELSE [raised |-> FALSE, words |-> FixedPreprocessText(cell.text, nltk)]

CallProdPreprocessText ==
  /\ app = "normalize"
  /\ last' = [fn |-> "production.preprocess_text", outcome |-> ProdPreprocessCell(df.rows[1].text)]
  /\ UNCHANGED <<app, calls, env, csv, pc, projects_df, vectorizer, tfidf_matrix, df, cache, ui,
                 http, public_api, net,
                 session_state, track, first>>

CallFixedPreprocessText ==
  /\ app = "normalize"
  /\ last' = [fn |-> "fixed.preprocess_text",
              outcome |-> FixedPreprocessCell(df.rows[1].text, env.nltk)]
  /\ UNCHANGED <<app, calls, env, csv, pc, projects_df, vectorizer, tfidf_matrix, df, cache, ui,
                 http, public_api, net,
                 session_state, track, first>>

InitNormalize ==
  /\ app = "normalize"
  /\ env \in [ties : {"index_order"}, hash_seed : {0}, nltk : BOOLEAN]
  /\ df \in {[rows |-> <<[text |-> t]>>] : t \in NormalizerTexts}
  /\ csv = None /\ pc = "page"
  /\ projects_df = None /\ vectorizer = None /\ tfidf_matrix = None
  /\ cache = <<>> /\ ui = <<>> /\ http = None
  /\ public_api = None /\ net = None /\ session_state = None
  /\ track = FALSE
  /\ first = None /\ last = None
  /\ calls = <<>>

NextNormalize ==
  \/ CallProdPreprocessText
  \/ CallFixedPreprocessText

SpecNormalize == InitNormalize /\ [][NextNormalize]_vars

(***************************************************************************)
(* src/integrations/public_apis.py: PublicAPIManager.                      *)
(*                                                                         *)
(* Time is in whole seconds and is kept as ages: last_request_time is None *)
(* or [ago |-> k], k the seconds since it was taken (2 stands for 2 or     *)
(* more); net.since_get is the age of the last GET, -1 if there was none.  *)
(***************************************************************************)
RateLimit == 100

\* The most GETs that raised and are remembered in net.gets beyond
\* requests_made.
MaxUncounted == 2

\* A check that lets the request through at the limit.
RateLimitPassed(requests_made, rate_limit) == requests_made > rate_limit

\* if self.requests_made >= self.rate_limit
RateLimitReached(requests_made, rate_limit) == requests_made >= rate_limit

\* PublicAPIManager(): the counters of a new object.
NewPublicApi == [rate_limit |-> RateLimit, requests_made |-> 0, last_request_time |-> None]

\* No GET has been issued yet.
QuietNet == [gets |-> 0, since_get |-> -1, rushed |-> FALSE]

\* An age after `seconds` more seconds.
Later(age, seconds) == IF age = -1 THEN -1 ELSE Min(age + seconds, 2)

\* The object and the net after `seconds` seconds.
Elapse(api, world, seconds) ==
  [api |-> IF api.last_request_time = None THEN api
           ELSE [api EXCEPT !.last_request_time = [ago |-> Later(@.ago, seconds)]],
   net |-> [world EXCEPT !.since_get = Later(@, seconds)]]

\* What session.get(url, params=params, timeout=10) does: a 200 with a JSON
\* body, a 200 whose body is not JSON, another status, or an exception
\* (timeout, connection error).
GetOutcomes == {"200", "200 not json", "status", "raises"}

\* Lines 54-56: the seconds time.sleep is called with when
\* last_request_time is `age` seconds old, 0 when it is not called.
SleepFor(age) == IF age < 2 THEN 2 - age ELSE 0

\* Line 58, the call: session.get sends a GET; it is rushed when the GET
\* before it went out less than 2 seconds ago.
Sent(world) ==
  [world EXCEPT !.gets = @ + 1, !.since_get = 0, !.rushed = @ \/ world.since_get \in {0, 1}]

\* Lines 53-58 of _make_request run with no other thread at work: the sleep
\* that brings the age of last_request_time to 2 seconds, then the GET.
SessionGet(api, world) ==
  LET wait == IF api.last_request_time # None
                THEN SleepFor(api.last_request_time.ago) ELSE 0
      slept == Elapse(api, world, wait)
  IN [api |-> slept.api, net |-> Sent(slept.net)]

\* Line 60: self.last_request_time = time.time()
Stamped(api) == [api EXCEPT !.last_request_time = [ago |-> 0]]

\* Line 61: self.requests_made += 1
Counted(api) == [api EXCEPT !.requests_made = @ + 1]

\* Lines 60-61
CountRequest(api) == Counted(Stamped(api))

\* Lines 63-71: the JSON body of a 200; None for another status, for a
\* body that is not JSON and for an exception.
Returned(reply) == IF reply.kind = "200" THEN reply.json ELSE None

\* _make_request(url, params) run from its first line to its return with
\* no other call on the object in between, when the GET ends as
\* `reply.kind`: the object and the net afterwards, whether a GET was
\* issued, and the return value.
MakeRequest(api, world, reply) ==
  IF RateLimitReached(api.requests_made, api.rate_limit)
    THEN [api |-> api, net |-> world, got |-> FALSE, returned |-> None]
  ELSE LET sent == SessionGet(api, world)
       IN [api |-> IF reply.kind = "raises" THEN sent.api ELSE CountRequest(sent.api),
           net |-> sent.net, got |-> TRUE, returned |-> Returned(reply)]

\* PublicAPIManager.get_api_usage_stats()
PublicUsageStats(api) ==
  [requests_made |-> api.requests_made,
   rate_limit |-> api.rate_limit,
   remaining_requests |-> api.rate_limit - api.requests_made,
   last_request_time |-> api.last_request_time,
   apis_used |-> <<"github", "npm", "pypi">>]

\* reset_usage_counter()
ResetUsageCounter(api) == [api EXCEPT !.requests_made = 0, !.last_request_time = None]

(***************************************************************************)
(* src/integrations/public_apis.py and api_manager.py: the searches of     *)
(* PublicAPIManager and StartupDataManager.                                *)
(*                                                                         *)
(* A reply is what the server does with one GET: [kind, json].  A JSON     *)
(* number is [value |-> n], JSON null is None.                             *)
(***************************************************************************)
\* A record with the fields of `a` and of `b`; b's value where both have one.
Updated(a, b) ==
  [k \in DOMAIN a \cup DOMAIN b |-> IF k \in DOMAIN b THEN b[k] ELSE a[k]]

JsonNumber(n) == [value |-> n]

\* The bodies api.github.com answers a repository search with: a result
\* list (two repositories may have one name), a body without 'items', an
\* item whose stargazers_count is null, and an item whose owner is null.
GithubBodies ==
  {[items |-> <<>>],
   [items |-> <<[name |-> "alpha", stargazers_count |-> JsonNumber(5)]>>],
   [items |-> <<[name |-> "alpha", stargazers_count |-> JsonNumber(5)],
               [name |-> "alpha", stargazers_count |-> JsonNumber(0)]>>],
   [items |-> <<[name |-> "beta", stargazers_count |-> None]>>],
   [items |-> <<[name |-> "alpha", stargazers_count |-> JsonNumber(5)],
               [name |-> "gamma", stargazers_count |-> JsonNumber(1), owner |-> None]>>],
   [message |-> "Validation Failed"]}

\* The bodies registry.npmjs.org answers a search with; in the last one the
\* score of an object is null.
NpmBodies ==
  {[objects |-> <<>>],
   [objects |-> <<[package |-> [name |-> "alpha"], score |-> [final |-> JsonNumber(1)]]>>],
   [objects |-> <<[package |-> [name |-> "alpha"], score |-> [final |-> JsonNumber(1)]],
                 [package |-> [name |-> "beta"], score |-> [final |-> JsonNumber(0)]]>>],
   [objects |-> <<[package |-> [name |-> "alpha"], score |-> [final |-> JsonNumber(1)]],
                 [package |-> [name |-> "gamma"], score |-> None]>>]}

Replies(bodies) ==
  {[kind |-> "200", json |-> b] : b \in bodies}
    \cup {[kind |-> k, json |-> None] : k \in GetOutcomes \ {"200"}}

\* The list search_companies_github makes of what _make_request returned.
\* item.get('owner', {}).get('avatar_url', '') raises AttributeError on an
\* owner that is null: the except clause and the final `return []` give the
\* empty list, whatever the other items are.
GithubCompanies(response) ==
  LET Broken(item) == "owner" \in DOMAIN item /\ item.owner = None
  IN IF response # None /\ "items" \in DOMAIN response
          /\ \A i \in 1..Len(response.items) : ~Broken(response.items[i])
       THEN [i \in 1..Len(response.items) |->
               [name |-> response.items[i].name, source |-> "github",
                stars |-> response.items[i].stargazers_count, downloads |-> None]]
       ELSE <<>>

\* The list search_companies_npm makes of what _make_request returned.
\* obj.get('score', {}).get('final', 0) raises AttributeError on a score
\* that is null, and the search returns the empty list.
NpmCompanies(response) ==
  IF response # None /\ "objects" \in DOMAIN response
       /\ \A i \in 1..Len(response.objects) : response.objects[i].score # None
    THEN [i \in 1..Len(response.objects) |->
            [name |-> response.objects[i].package.name, source |-> "npm",
             stars |-> None, downloads |-> response.objects[i].score.final]]
    ELSE <<>>

\* One search run alone: the object and net afterwards and the list it
\* returns.
SearchCompaniesGithub(api, world, reply) ==
  Once(MakeRequest(api, world, reply),
       LAMBDA out : [api |-> out.api, net |-> out.net,
                     companies |-> GithubCompanies(out.returned)])

SearchCompaniesNpm(api, world, reply) ==
  Once(MakeRequest(api, world, reply),
       LAMBDA out : [api |-> out.api, net |-> out.net,
                     companies |-> NpmCompanies(out.returned)])

\* sample_packages of search_companies_pypi: f'{query}-tool', f'{query}-api',
\* f'{query}-utils'.
SamplePackages ==
  <<[name |-> "tool", source |-> "pypi", stars |-> None, downloads |-> JsonNumber(1000)],
    [name |-> "api", source |-> "pypi", stars |-> None, downloads |-> JsonNumber(5000)],
    [name |-> "utils", source |-> "pypi", stars |-> None, downloads |-> JsonNumber(2500)]>>

\* seq[:limit]
FirstSlice(seq, limit) ==
  SubSeq(seq, 1, IF limit >= 0 THEN Min(limit, Len(seq)) ELSE Max(Len(seq) + limit, 0))

\* search_companies_pypi(query, limit): no request is made.
SearchCompaniesPypi(limit) == FirstSlice(SamplePackages, limit)

RECURSIVE UniqueByName(_, _)
\* A removal of duplicates that looks at the name alone.
UniqueByName(startups, seen) ==
  IF startups = <<>> THEN <<>>
  ELSE IF Head(startups).name \in seen THEN UniqueByName(Tail(startups), seen)
  ELSE <<Head(startups)>> \o UniqueByName(Tail(startups), seen \cup {Head(startups).name})

RECURSIVE UniqueStartups(_, _)
\* unique_startups: the first record of each f"{name}_{source}" key, in order.
\* The key is the pair: no two of the names and sources here give one string.
UniqueStartups(startups, seen) ==
  IF startups = <<>> THEN <<>>
  ELSE LET key == <<Head(startups).name, Head(startups).source>>
       IN IF key \in seen THEN UniqueStartups(Tail(startups), seen)
          ELSE <<Head(startups)>> \o UniqueStartups(Tail(startups), seen \cup {key})

\* The `sources` argument is None, which stands for all three, or a list,
\* [list |-> the set of its members]: the code only asks `in sources`.
AllSources == {"github", "npm", "pypi"}

SourcesArguments == {[list |-> chosen] : chosen \in SUBSET AllSources} \cup {None}

\* StartupDataManager.search_startups(query, limit, sources) when GitHub
\* answers `replies.github` and NPM `replies.npm`.
SearchStartups(api, world, limit, sources, replies) ==
  LET asked == IF sources = None THEN AllSources ELSE sources.list
      Github == IF "github" \in asked THEN SearchCompaniesGithub(api, world, replies.github)
                ELSE [api |-> api, net |-> world, companies |-> <<>>]
      Npm(g) == IF "npm" \in asked THEN SearchCompaniesNpm(g.api, g.net, replies.npm)
                ELSE [api |-> g.api, net |-> g.net, companies |-> <<>>]
      p == IF "pypi" \in asked THEN SearchCompaniesPypi(limit) ELSE <<>>
  IN Once(Github, LAMBDA g : Once(Npm(g), LAMBDA n :
       [api |-> n.api, net |-> n.net, raised |-> FALSE,
        startups |-> UniqueStartups(g.companies \o n.companies \o p, {})]))

\* StartupDataManager.get_api_usage_stats()
ManagerUsageStats(api) ==
  [public_apis |-> PublicUsageStats(api),
   total_requests |-> PublicUsageStats(api).requests_made,
   total_remaining |-> PublicUsageStats(api).remaining_requests]

\* sum(p.get(field, 0) for p in projects): a None among the numbers raises
\* TypeError.
SumOf(numbers) ==
  IF \E i \in 1..Len(numbers) : numbers[i] = None
    THEN [raised |-> TRUE, value |-> 0]
    ELSE [raised |-> FALSE, value |-> SumSeq([i \in 1..Len(numbers) |-> numbers[i].value])]

\* distribution[value] = distribution.get(value, 0) + 1 over the values:
\* the dict of how often each occurs.
Distribution(values) ==
  [value \in {values[i] : i \in 1..Len(values)} |->
     Cardinality({i \in 1..Len(values) : values[i] = value})]

\* The float n / d.
Ratio(n, d) == [num |-> n, den |-> d]

\* The totals of get_market_insights over the three lists; an exception of
\* the sums escapes.
MarketInsights(github_projects, npm_projects, pypi_projects, query) ==
  LET all_projects == github_projects \o npm_projects \o pypi_projects
      downloaded == npm_projects \o pypi_projects
      total_stars == SumOf([i \in 1..Len(github_projects) |-> github_projects[i].stars])
      total_downloads == SumOf([i \in 1..Len(downloaded) |-> downloaded[i].downloads])
  IN IF total_stars.raised \/ total_downloads.raised
       THEN [raised |-> TRUE, error |-> "TypeError"]
       ELSE [raised |-> FALSE,
             insights |->
               [total_projects_found |-> Len(all_projects),
                total_stars |-> total_stars.value,
                total_downloads |-> total_downloads.value,
                source_distribution |->
                  Distribution([i \in 1..Len(all_projects) |-> all_projects[i].source]),
                language_distribution |->
                  Distribution([i \in 1..Len(github_projects) |-> ""]),
                search_query |-> query,
                timestamp |-> "now",
                projects |-> all_projects]]

\* PublicAPIManager.get_market_insights(query): the three searches with
\* limit 10, then the totals.
GetMarketInsights(api, world, query, replies) ==
  LET Totals(g, n) ==
        Updated([api |-> n.api, net |-> n.net],
                MarketInsights(g.companies, n.companies, SearchCompaniesPypi(10), query))
      ThenNpm(g) == Once(SearchCompaniesNpm(g.api, g.net, replies.npm), LAMBDA n : Totals(g, n))
  IN Once(SearchCompaniesGithub(api, world, replies.github), ThenNpm)

\* The record get_combined_insights returns for what get_market_insights
\* gave: the insights with the averages added, or the record of the except
\* clause.
CombinedInsights(out, query) ==
  IF out.raised
    THEN [total_projects_found |-> 0, total_stars |-> 0, total_downloads |-> 0,
          source_distribution |-> <<>>, language_distribution |-> <<>>,
          search_query |-> query, timestamp |-> "now", error |-> out.error]
    ELSE LET count == Len(out.insights.projects)
         IN Updated(out.insights,
              [average_stars |->
                 IF count = 0 THEN Ratio(0, 1) ELSE Ratio(out.insights.total_stars, count),
               average_downloads |->
                 IF count = 0 THEN Ratio(0, 1)
                 ELSE Ratio(out.insights.total_downloads, count),
               popularity_score |->
                 Ratio(out.insights.total_stars + out.insights.total_downloads, 1000),
               platform_diversity |->
                 Cardinality(DOMAIN out.insights.source_distribution),
               language_diversity |->
                 Cardinality(DOMAIN out.insights.language_distribution)])

\* StartupDataManager.get_combined_insights(query)
GetCombinedInsights(api, world, query, replies) ==
  Once(GetMarketInsights(api, world, query, replies),
       LAMBDA out : [api |-> out.api, net |-> out.net,
                     insights |-> Once(CombinedInsights(out, query), LAMBDA made : made)])

\* The list get_trending_projects(category, limit) makes of the GitHub
\* 'trending' and NPM 'popular' lists and the PyPI samples, each limit // 3.
TrendingProjects(github_trending, npm_trending, limit) ==
  LET Scored(projects, score) ==
        [i \in 1..Len(projects) |-> Updated(projects[i], [trending_score |-> score])]
      all_projects ==
        Scored(github_trending, Ratio(9, 10)) \o Scored(npm_trending, Ratio(8, 10))
          \o Scored(SearchCompaniesPypi(limit \div 3), Ratio(7, 10))
  IN FirstSlice(UniqueStartups(all_projects, {}), limit)

\* get_trending_startups(category, limit) run alone.
GetTrendingStartups(api, world, limit, replies) ==
  Once(SearchCompaniesGithub(api, world, replies.github), LAMBDA g :
    Once(SearchCompaniesNpm(g.api, g.net, replies.npm), LAMBDA n :
      [api |-> n.api, net |-> n.net,
       trending |-> TrendingProjects(g.companies, n.companies, limit)]))

(***************************************************************************)
(* Calls on one PublicAPIManager or StartupDataManager.  Neither class     *)
(* holds a lock: a call is the steps below, and a step of another thread   *)
(* that has the object may come between two of them, as may the passing of *)
(* time.  pc[t] is where thread t is: idle, or in a call, [at, fn, args,   *)
(* before, todo, returned, got, sleep].  todo is the requests the call has *)
(* still to make, the first of them the _make_request in progress, and at  *)
(* is the line of _make_request the thread is at: "check" (48),            *)
(* "test_last" (53), "time_since_last" (54), "sleep" (inside time.sleep,   *)
(* 56, for `sleep` more seconds), "get" (58, before session.get),          *)
(* "response" (58, inside session.get), "stamp" (60), "count" (61).        *)
(* returned is what _make_request returned for the requests made; got is   *)
(* whether a GET has been issued.  args.replies[request] is what the       *)
(* server does with that request's GET.                                    *)
(***************************************************************************)
MainThread == "main"

Threads == {MainThread, "other"}

Idle == [at |-> "idle"]

NoReturns == [request \in {} |-> None]

\* The requests of a search over the sources `asked`, in the code's order.
RequestsOf(asked) == SelectSeq(<<"github", "npm">>, LAMBDA source : source \in asked)

Asked(sources) == IF sources = None THEN AllSources ELSE sources.list

\* get_startup_details(startup_id, source): details[0] of the search with
\* limit 1, None when the list is empty or the source is not one of three.
StartupDetails(source, github, npm) ==
  LET details == CASE source = "github" -> github
                   [] source = "npm" -> npm
                   [] source = "pypi" -> SearchCompaniesPypi(1)
                   [] OTHER -> <<>>
  IN IF details # <<>> THEN details[1] ELSE None

\* get_team_members(startup_id, source): details[0].get('owner', {}) of a
\* GitHub search; a company record has no 'owner', so the fields are ''.
TeamMembers(source, github) ==
  IF source = "github" /\ github # <<>>
    THEN << [id |-> "", name |-> "", title |-> "Owner", avatar_url |-> "", source |-> "github"] >>
    ELSE <<>>

\* What the call returns once its requests have returned.
ResultOf(frame) ==
  LET Response(request) ==
        IF request \in DOMAIN frame.returned THEN frame.returned[request] ELSE None
      github == GithubCompanies(Response("github"))
      npm == NpmCompanies(Response("npm"))
  IN CASE frame.fn = "_make_request" -> Response("url")
       [] frame.fn = "search_startups" ->
            [raised |-> FALSE,
             startups |->
               UniqueStartups(github \o npm
                                \o (IF "pypi" \in Asked(frame.args.sources)
                                      THEN SearchCompaniesPypi(frame.args.limit) ELSE <<>>), {})]
       [] frame.fn = "get_combined_insights" ->
            CombinedInsights(MarketInsights(github, npm, SearchCompaniesPypi(10),
                                            frame.args.query), frame.args.query)
       [] frame.fn = "get_trending_startups" -> TrendingProjects(github, npm, frame.args.limit)
       [] frame.fn = "get_startup_details" -> StartupDetails(frame.args.source, github, npm)
       [] frame.fn = "get_team_members" -> TeamMembers(frame.args.source, github)

\* The call of thread t returns.  `last` keeps the call, what the usage was
\* when it began, and what it returned; a thread of the manager makes one
\* call and then reads the usage.  In a section the value goes back to the
\* render function, which has yet to draw what it makes of it.
Leave(t, frame) ==
  \E result \in {ResultOf(frame)} :
    IF app = "sections"
      THEN /\ pc' = [pc EXCEPT ![t] = [at |-> "returned", fn |-> frame.fn, result |-> result]]
           /\ UNCHANGED last
      ELSE /\ pc' = [pc EXCEPT ![t] = IF app = "manager" THEN [at |-> "called"] ELSE Idle]
           /\ last' = [fn |-> frame.fn, args |-> frame.args, before |-> frame.before,
                       got |-> frame.got, result |-> result]

\* Thread t begins a call that makes the requests `todo`: a call without
\* requests returns at once.
Begin(t, fn, args, before, todo) ==
  LET frame == [at |-> "check", fn |-> fn, args |-> args, before |-> before,
                todo |-> todo, returned |-> NoReturns, got |-> FALSE, sleep |-> 0]
  IN IF todo = <<>> THEN Leave(t, frame)
     ELSE pc' = [pc EXCEPT ![t] = frame] /\ UNCHANGED last

\* Thread t begins a call on the object as it is.
Enter(t, fn, args, before, todo) ==
  /\ Begin(t, fn, args, before, todo)
  /\ UNCHANGED <<app, calls, env, csv, projects_df, vectorizer, tfidf_matrix, df, cache, ui, http,
                 public_api, net, session_state, track, first>>

\* _make_request returns `response` to the call of thread t, which goes on
\* to its next request or returns.
RequestReturns(t, frame, response) ==
  LET done == [frame EXCEPT
                 !.returned = Updated(@, [request \in {Head(frame.todo)} |-> response]),
                 !.todo = Tail(@), !.at = "check"]
  IN IF done.todo = <<>> THEN Leave(t, done)
     ELSE pc' = [pc EXCEPT ![t] = done] /\ UNCHANGED last

\* The programs whose threads make requests.
Requesting == {"public_api", "manager", "sections"}

\* Lines 47-50 of _make_request: the rate limit check.
CheckRateLimit(t) ==
  /\ app \in Requesting
  /\ pc[t].at = "check"
  /\ IF RateLimitReached(public_api.requests_made, public_api.rate_limit)
       THEN RequestReturns(t, pc[t], None)
       ELSE pc' = [pc EXCEPT ![t].at = "test_last"] /\ UNCHANGED last
  /\ UNCHANGED <<app, calls, env, csv, projects_df, vectorizer, tfidf_matrix, df, cache, ui, http,
                 public_api, net, session_state, track, first>>

\* Line 53: if self.last_request_time
TestLastRequestTime(t) ==
  /\ app \in Requesting
  /\ pc[t].at = "test_last"
  /\ pc' = [pc EXCEPT ![t].at = IF public_api.last_request_time # None
                                   THEN "time_since_last" ELSE "get"]
  /\ UNCHANGED <<app, calls, env, csv, projects_df, vectorizer, tfidf_matrix, df, cache, ui, http,
                 public_api, net, session_state, track, first, last>>

\* Lines 54-56: time_since_last = time.time() - self.last_request_time reads
\* the field again.  If it is None by now (reset_usage_counter since
\* line 53) the subtraction raises TypeError and the except clause (69-71)
\* returns None; if it is less than 2 seconds old the thread enters
\* time.sleep.
TimeSinceLast(t) ==
  /\ app \in Requesting
  /\ pc[t].at = "time_since_last"
  /\ IF public_api.last_request_time = None
       THEN RequestReturns(t, pc[t], None)
       ELSE /\ pc' = [pc EXCEPT ![t] =
                        IF SleepFor(public_api.last_request_time.ago) > 0
                          THEN [@ EXCEPT !.at = "sleep",
                                         !.sleep = SleepFor(public_api.last_request_time.ago)]
                          ELSE [@ EXCEPT !.at = "get"]]
            /\ UNCHANGED last
  /\ UNCHANGED <<app, calls, env, csv, projects_df, vectorizer, tfidf_matrix, df, cache, ui, http,
                 public_api, net, session_state, track, first>>

\* Line 58, the call: session.get(url, params=params, timeout=10) sends the
\* GET and waits for the answer.
SendGet(t) ==
  /\ app \in Requesting
  /\ pc[t].at = "get"
  /\ net' = Sent(net)
  /\ pc' = [pc EXCEPT ![t].at = "response", ![t].got = TRUE]
  /\ UNCHANGED <<app, calls, env, csv, projects_df, vectorizer, tfidf_matrix, df, cache, ui, http,
                 public_api, session_state, track, first, last>>

\* Line 58, the return: session.get returns the response, or raises (a
\* timeout, a connection error) and the except clause (69-71) returns None.
GetReturns(t) ==
  /\ app \in Requesting
  /\ pc[t].at = "response"
  /\ IF pc[t].args.replies[Head(pc[t].todo)].kind = "raises"
       THEN RequestReturns(t, pc[t], None)
       ELSE pc' = [pc EXCEPT ![t].at = "stamp"] /\ UNCHANGED last
  /\ UNCHANGED <<app, calls, env, csv, projects_df, vectorizer, tfidf_matrix, df, cache, ui, http,
                 public_api, net, session_state, track, first>>

\* Line 60: self.last_request_time = time.time()
StampRequest(t) ==
  /\ app \in Requesting
  /\ pc[t].at = "stamp"
  /\ public_api' = Stamped(public_api)
  /\ pc' = [pc EXCEPT ![t].at = "count"]
  /\ UNCHANGED <<app, calls, env, csv, projects_df, vectorizer, tfidf_matrix, df, cache, ui, http,
                 net, session_state, track, first, last>>

\* Lines 61-67: the count of the request, and the return.
CountGet(t) ==
  /\ app \in Requesting
  /\ pc[t].at = "count"
  /\ public_api' = Counted(public_api)
  /\ RequestReturns(t, pc[t], Returned(pc[t].args.replies[Head(pc[t].todo)]))
  /\ UNCHANGED <<app, calls, env, csv, projects_df, vectorizer, tfidf_matrix, df, cache, ui, http,
                 net, session_state, track, first>>

\* The steps of _make_request that thread t may take.
RequestStep(t) ==
  \/ CheckRateLimit(t)
  \/ TestLastRequestTime(t)
  \/ TimeSinceLast(t)
  \/ SendGet(t)
  \/ GetReturns(t)
  \/ StampRequest(t)
  \/ CountGet(t)

\* A second passes: the ages grow, and a thread inside time.sleep has a
\* second less to sleep; time.sleep returns when none is left.  (Time is
\* followed only while an age is below 2 seconds or a thread sleeps.)
Tick ==
  /\ app \in Requesting
  /\ \/ net.since_get \in {0, 1}
     \/ /\ public_api # None /\ public_api.last_request_time # None
        /\ public_api.last_request_time.ago \in {0, 1}
     \/ \E t \in DOMAIN pc : pc[t].at = "sleep"
  /\ public_api' = IF public_api = None THEN None ELSE Elapse(public_api, net, 1).api
  /\ net' = [net EXCEPT !.since_get = Later(@, 1)]
  /\ pc' = [t \in DOMAIN pc |->
              IF pc[t].at # "sleep" THEN pc[t]
              ELSE IF pc[t].sleep = 1 THEN [pc[t] EXCEPT !.at = "get", !.sleep = 0]
              ELSE [pc[t] EXCEPT !.sleep = @ - 1]]
  /\ UNCHANGED <<app, calls, env, csv, projects_df, vectorizer, tfidf_matrix, df, cache, ui, http,
                 session_state, track, first, last>>

(***************************************************************************)
(* The calls on a PublicAPIManager.                                        *)
(***************************************************************************)
\* Thread t calls _make_request; a GET that raises is taken only while
\* fewer than MaxUncounted of them are remembered.
CallMakeRequest(t, kind) ==
  /\ app = "public_api"
  /\ pc[t] = Idle
  /\ kind = "raises" => net.gets - public_api.requests_made < MaxUncounted
  /\ Enter(t, "_make_request",
           [replies |-> [url |-> [kind |-> kind, json |-> [items |-> <<>>]]]],
           public_api.requests_made, <<"url">>)

CallResetUsageCounter(t) ==
  /\ app = "public_api"
  /\ pc[t] = Idle
  /\ public_api' = ResetUsageCounter(public_api)
  /\ net' = [net EXCEPT !.gets = 0]
  /\ last' = [fn |-> "reset_usage_counter"]
  /\ UNCHANGED <<app, calls, env, csv, pc, projects_df, vectorizer, tfidf_matrix, df, cache, ui, http,
                 session_state, track, first>>

CallGetApiUsageStats(t) ==
  /\ app = "public_api"
  /\ pc[t] = Idle
  /\ last' = [fn |-> "get_api_usage_stats", stats |-> PublicUsageStats(public_api)]
  /\ UNCHANGED <<app, calls, env, csv, pc, projects_df, vectorizer, tfidf_matrix, df, cache, ui, http,
                 public_api, net, session_state, track, first>>

InitCounter ==
  /\ app = "public_api"
  /\ env \in {e \in Envs : e.ties = "index_order" /\ e.hash_seed = 0}
  /\ public_api = NewPublicApi /\ net = QuietNet
  /\ csv = None /\ pc = [t \in Threads |-> Idle] /\ df = None
  /\ projects_df = None /\ vectorizer = None /\ tfidf_matrix = None
  /\ cache = <<>> /\ ui = <<>> /\ http = None /\ session_state = None
  /\ track = FALSE
  /\ first = None /\ last = None
  /\ calls = <<>>

\* What thread t may do with the PublicAPIManager.
CounterStep(t) ==
  \/ \E kind \in GetOutcomes : CallMakeRequest(t, kind)
  \/ RequestStep(t)
  \/ CallResetUsageCounter(t)
  \/ CallGetApiUsageStats(t)

\* The object as the repository uses it: one thread has it (every
\* PublicAPIManager is created and used by one script run or one function,
\* api_manager.py 35, public_apis.py 359, streamlit_integration.py 27).
NextCounter == Tick \/ CounterStep(MainThread)

SpecCounter == InitCounter /\ [][NextCounter]_vars

(***************************************************************************)
(* The calls on a StartupDataManager.                                      *)
(***************************************************************************)
SearchLimits == {-1, 0, 1, 5, 20}

AllReplies == [github : Replies(GithubBodies), npm : Replies(NpmBodies)]

\* The `source` arguments of get_startup_details and get_team_members, and
\* the replies to the one request the call makes.
DetailSources == {"github", "npm", "pypi", "crunchbase"}

DetailReplies(source) ==
  CASE source = "github" -> {[github |-> reply] : reply \in Replies(GithubBodies)}
    [] source = "npm" -> {[npm |-> reply] : reply \in Replies(NpmBodies)}
    [] OTHER -> {NoReturns}

\* get_team_members makes a request for GitHub alone.
TeamSource(source) == IF source = "github" THEN source ELSE "none"

CallSearchStartups(t, limit, sources, replies) ==
  /\ app = "manager" /\ pc[t] = Idle
  /\ Enter(t, "search_startups", [limit |-> limit, sources |-> sources, replies |-> replies],
           ManagerUsageStats(public_api), RequestsOf(Asked(sources)))

CallGetCombinedInsights(t, replies) ==
  /\ app = "manager" /\ pc[t] = Idle
  /\ Enter(t, "get_combined_insights", [query |-> "AI", replies |-> replies],
           ManagerUsageStats(public_api), <<"github", "npm">>)

CallGetTrendingStartups(t, replies) ==
  /\ app = "manager" /\ pc[t] = Idle
  /\ Enter(t, "get_trending_startups", [limit |-> 15, replies |-> replies],
           ManagerUsageStats(public_api), <<"github", "npm">>)

CallGetStartupDetails(t, source, replies) ==
  /\ app = "manager" /\ pc[t] = Idle
  /\ Enter(t, "get_startup_details", [source |-> source, replies |-> replies],
           ManagerUsageStats(public_api), RequestsOf({source}))

CallGetTeamMembers(t, source, replies) ==
  /\ app = "manager" /\ pc[t] = Idle
  /\ Enter(t, "get_team_members", [source |-> source, replies |-> replies],
           ManagerUsageStats(public_api), RequestsOf({TeamSource(source)}))

\* manager.reset_usage_counters()
CallResetUsageCounters(t) ==
  /\ app = "manager" /\ pc[t] = Idle
  /\ pc' = [pc EXCEPT ![t] = [at |-> "called"]]
  /\ public_api' = ResetUsageCounter(public_api)
  /\ net' = [net EXCEPT !.gets = 0]
  /\ last' = [fn |-> "reset_usage_counters", before |-> ManagerUsageStats(public_api)]
  /\ UNCHANGED <<app, calls, env, csv, projects_df, vectorizer, tfidf_matrix, df, cache, ui, http,
                 session_state, track, first>>

\* manager.get_api_usage_stats() after the call.
CallManagerUsageStats(t) ==
  /\ app = "manager" /\ pc[t] = [at |-> "called"]
  /\ pc' = [pc EXCEPT ![t] = [at |-> "reported"]]
  /\ first' = ManagerUsageStats(public_api)
  /\ UNCHANGED <<app, calls, env, csv, projects_df, vectorizer, tfidf_matrix, df, cache, ui, http,
                 public_api, net, session_state, track, last>>

\* A StartupDataManager that has served `served` requests, the last of
\* them just now or a while ago.
ManagerAfter(served) ==
  /\ app = "manager"
  /\ env \in {e \in Envs : e.ties = "index_order" /\ e.hash_seed = 0}
  /\ \E made \in served, ago \in {0, 2} :
       /\ public_api = [NewPublicApi EXCEPT
                          !.requests_made = made,
                          !.last_request_time = IF made = 0 THEN None ELSE [ago |-> ago]]
       /\ net = [QuietNet EXCEPT !.gets = made, !.since_get = IF made = 0 THEN -1 ELSE ago]
  /\ csv = None /\ pc = [t \in Threads |-> Idle] /\ df = None
  /\ projects_df = None /\ vectorizer = None /\ tfidf_matrix = None
  /\ cache = <<>> /\ ui = <<>> /\ http = None /\ session_state = None
  /\ track = FALSE
  /\ first = None /\ last = None
  /\ calls = <<>>

\* The manager has served no request, one less than the limit, or the limit.
InitManager == ManagerAfter({0, RateLimit - 1, RateLimit})

\* What thread t may do with the StartupDataManager.
ManagerStep(t, limits, arguments, all_replies) ==
  \/ /\ app = "manager" /\ pc[t] = Idle
     /\ \E limit \in limits, sources \in arguments, replies \in all_replies :
          CallSearchStartups(t, limit, sources, replies)
  \/ /\ app = "manager" /\ pc[t] = Idle
     /\ \E replies \in all_replies : CallGetCombinedInsights(t, replies)
  \/ /\ app = "manager" /\ pc[t] = Idle
     /\ \E replies \in all_replies : CallGetTrendingStartups(t, replies)
  \/ /\ app = "manager" /\ pc[t] = Idle
     /\ \E source \in DetailSources : \E replies \in DetailReplies(source) :
          CallGetStartupDetails(t, source, replies)
  \/ /\ app = "manager" /\ pc[t] = Idle
     /\ \E source \in DetailSources : \E replies \in DetailReplies(TeamSource(source)) :
          CallGetTeamMembers(t, source, replies)
  \/ CallResetUsageCounters(t)
  \/ RequestStep(t)
  \/ CallManagerUsageStats(t)

\* The object as the repository uses it: one thread has it.
NextManager == Tick \/ ManagerStep(MainThread, SearchLimits, SourcesArguments, AllReplies)

SpecManager == InitManager /\ [][NextManager]_vars

(***************************************************************************)
(* One PublicAPIManager or StartupDataManager in the hands of two threads  *)
(* (no code of the repository does this; the classes are public).  The     *)
(* second thread's calls find GitHub and NPM answering.                    *)
(***************************************************************************)
AnsweringReplies ==
  {replies \in AllReplies :
     /\ replies.github.kind = "200" /\ replies.npm.kind = "200"
     /\ "items" \in DOMAIN replies.github.json /\ Len(replies.github.json.items) = 1
     /\ Len(replies.npm.json.objects) = 1}

InitThreads == InitCounter \/ ManagerAfter({RateLimit - 2, RateLimit - 1})

NextThreads ==
  \/ Tick
  \/ \E t \in Threads : CounterStep(t)
  \/ \E t \in Threads : ManagerStep(t, {5}, {None}, AnsweringReplies)

SpecThreads == InitThreads /\ [][NextThreads]_vars

\* With one thread a counter is never above the limit; with two, both may
\* pass the check at rate_limit - 1 and both count.
ThreadsWithinLimit == public_api.requests_made <= public_api.rate_limit

(***************************************************************************)
(* src/integrations/streamlit_integration.py: the sections.  One call of a *)
(* render function is one script run of the section with the values its    *)
(* widgets have in that run.  What a run draws is a sequence of elements,  *)
(* [element |-> ...].  In the session a run that calls the manager is the  *)
(* steps of that call (the script thread waits in time.sleep and in        *)
(* session.get) and then the drawing of the outcome; the Render* operators *)
(* give a whole run, with the net afterwards and the manager it created,   *)
(* None when it created none.                                              *)
(***************************************************************************)
MaxSessionGets == 101

\* initialize_startup_manager(): return StartupDataManager()
InitializeStartupManager == NewPublicApi

Element(name) == [element |-> name]

\* display_startup_results(startups) of a list that is not empty, its
\* GitHub records with a number of stars: render_startup_list sorts by the
\* selectbox's first option, filtered_df.sort_values('stars',
\* ascending=False), and the DataFrame has the column 'stars' only when a
\* record has the key, which the GitHub records alone have.
DisplayStartupResults(startups) ==
  IF \E i \in 1..Len(startups) : startups[i].source = "github"
    THEN [raised |-> FALSE]
    ELSE [raised |-> TRUE, error |-> "KeyError", key |-> "stars"]

\* render_startup_search_section (66-73): what is drawn for the list
\* search_startups returned; an exception of the display is shown by
\* st.error.
SearchOutcome(startups) ==
  IF startups = <<>> THEN <<Element("warning")>>
  ELSE IF DisplayStartupResults(startups).raised
    THEN <<Element("success"),
           [element |-> "error", text |-> "Error searching projects",
            cause |-> DisplayStartupResults(startups).key]>>
  ELSE <<Element("success")>>

\* render_startup_search_section() run from its first line to its last with
\* nothing else at work in between.
RenderStartupSearchSection(world, submitted, search_query, search_limit, sources, replies) ==
  IF submitted /\ search_query # ""
    THEN Once(SearchStartups(InitializeStartupManager, world, search_limit,
                             [list |-> sources], replies),
              LAMBDA out :
                [net |-> out.net, manager |-> out.api,
                 shown |-> <<Element("startup_search_form")>> \o SearchOutcome(out.startups)])
    ELSE [net |-> world, manager |-> None, shown |-> <<Element("startup_search_form")>>]

\* render_trending_startups_section (293-297): what is drawn for the list
\* get_trending_startups returned.
TrendingOutcome(trending) ==
  <<IF trending # <<>> THEN Element("success") ELSE Element("warning")>>

\* render_trending_startups_section() run from its first line to its last.
RenderTrendingStartupsSection(world, clicked, replies) ==
  IF clicked
    THEN Once(GetTrendingStartups(InitializeStartupManager, world, 15, replies),
              LAMBDA out :
                [net |-> out.net, manager |-> out.api,
                 shown |-> <<Element("trending_button")>> \o TrendingOutcome(out.trending)])
    ELSE [net |-> world, manager |-> None, shown |-> <<Element("trending_button")>>]

\* display_insights(insights): the metrics and charts, then the message of
\* the popularity score: st.success above 10, st.info above 5, st.warning
\* otherwise.
DisplayInsights(insights) ==
  LET popularity_score == insights.popularity_score
  IN <<Element("insights"),
       IF popularity_score.num > 10 * popularity_score.den THEN Element("success")
       ELSE IF popularity_score.num > 5 * popularity_score.den THEN Element("info")
       ELSE Element("warning")>>

\* render_insights_section (412-415): what is drawn for the record
\* get_combined_insights returned.
InsightsOutcome(insights) ==
  IF insights.total_projects_found > 0 THEN DisplayInsights(insights)
  ELSE <<Element("warning")>>

\* render_insights_section() run from its first line to its last.
RenderInsightsSection(world, submitted, insight_query, replies) ==
  IF submitted /\ insight_query # ""
    THEN Once(GetCombinedInsights(InitializeStartupManager, world, insight_query, replies),
              LAMBDA out :
                [net |-> out.net, manager |-> out.api,
                 shown |-> <<Element("insights_form")>> \o InsightsOutcome(out.insights)])
    ELSE [net |-> world, manager |-> None, shown |-> <<Element("insights_form")>>]

\* render_api_settings_section(): the button 'Check API Usage' and the
\* metrics 'Requests Made' and 'Remaining' it shows.
RenderApiSettingsSection(world, clicked) ==
  IF clicked
    THEN LET manager == InitializeStartupManager
             usage_stats == ManagerUsageStats(manager)
         IN [net |-> world, manager |-> manager,
             shown |-> <<Element("check_usage_button"),
                         [element |-> "usage_metrics",
                          requests_made |-> usage_stats.total_requests,
                          remaining |-> usage_stats.total_remaining]>>]
    ELSE [net |-> world, manager |-> None, shown |-> <<Element("check_usage_button")>>]

\* What the servers do in a session: GitHub answers or times out, NPM
\* answers or refuses.
SessionReplies ==
  [github : {[kind |-> "200",
              json |-> [items |-> <<[name |-> "alpha", stargazers_count |-> JsonNumber(5)]>>]],
             [kind |-> "raises", json |-> None]},
   npm : {[kind |-> "200", json |-> [objects |-> <<>>]], [kind |-> "status", json |-> None]}]

\* st.number_input("Results", min_value=5, max_value=50, value=20, step=5)
SearchLimitInputs == {5, 20}

\* st.text_input: nothing typed, or a query.
TextInputs == {"", "AI"}

\* The script thread is between two runs, or in a run whose manager call
\* has returned: an interaction of the user that arrived while the run
\* waited in the call stops the run at its next st.* command, before it
\* draws what the call returned, and the script runs again with the values
\* of that interaction.
CanRun == pc[MainThread].at \in {"idle", "returned"}

\* A run that draws `shown` and makes no call on a manager.
RunWithoutCall(shown) ==
  /\ ui' = shown
  /\ public_api' = None
  /\ pc' = [pc EXCEPT ![MainThread] = Idle]
  /\ UNCHANGED <<app, calls, env, csv, projects_df, vectorizer, tfidf_matrix, df, cache, http,
                 net, session_state, track, first, last>>

\* A run that draws `shown`, creates a StartupDataManager and calls fn on
\* it: the run goes on when the call has returned.
RunWithCall(shown, fn, args, todo) ==
  /\ ui' = shown
  /\ public_api' = InitializeStartupManager
  /\ Begin(MainThread, fn, args, ManagerUsageStats(InitializeStartupManager), todo)
  /\ UNCHANGED <<app, calls, env, csv, projects_df, vectorizer, tfidf_matrix, df, cache, http,
                 net, session_state, track, first>>

\* render_startup_search_section() (33-64): the form, and for a submitted
\* query the call manager.search_startups(search_query, search_limit,
\* sources).
RunStartupSearchSection(submitted, search_query, search_limit, sources, replies) ==
  /\ app = "sections" /\ CanRun /\ net.gets < MaxSessionGets
  /\ IF submitted /\ search_query # ""
       THEN RunWithCall(<<Element("startup_search_form")>>, "search_startups",
                        [limit |-> search_limit, sources |-> [list |-> sources],
                         replies |-> replies],
                        RequestsOf(sources))
       ELSE RunWithoutCall(<<Element("startup_search_form")>>)

\* render_trending_startups_section() (279-291): the button, and when it
\* was clicked the call manager.get_trending_startups(category, limit=15).
RunTrendingStartupsSection(clicked, replies) ==
  /\ app = "sections" /\ CanRun /\ net.gets < MaxSessionGets
  /\ IF clicked
       THEN RunWithCall(<<Element("trending_button")>>, "get_trending_startups",
                        [limit |-> 15, replies |-> replies], <<"github", "npm">>)
       ELSE RunWithoutCall(<<Element("trending_button")>>)

\* render_insights_section() (394-410): the form, and for a submitted query
\* the call manager.get_combined_insights(insight_query).
RunInsightsSection(submitted, insight_query, replies) ==
  /\ app = "sections" /\ CanRun /\ net.gets < MaxSessionGets
  /\ IF submitted /\ insight_query # ""
       THEN RunWithCall(<<Element("insights_form")>>, "get_combined_insights",
                        [query |-> insight_query, replies |-> replies], <<"github", "npm">>)
       ELSE RunWithoutCall(<<Element("insights_form")>>)

\* render_api_settings_section(): a run that makes no request.
RunApiSettingsSection(clicked) ==
  /\ app = "sections" /\ CanRun
  /\ \E out \in {RenderApiSettingsSection(net, clicked)} :
       /\ ui' = out.shown
       /\ public_api' = out.manager
  /\ pc' = [pc EXCEPT ![MainThread] = Idle]
  /\ UNCHANGED <<app, calls, env, csv, projects_df, vectorizer, tfidf_matrix, df, cache, http,
                 net, session_state, track, first, last>>

\* What the section draws for the value its manager call returned.
OutcomeOf(fn, result) ==
  CASE fn = "search_startups" -> SearchOutcome(result.startups)
    [] fn = "get_trending_startups" -> TrendingOutcome(result)
    [] fn = "get_combined_insights" -> InsightsOutcome(result)

\* The manager's call has returned and no interaction arrived meanwhile:
\* the run draws the outcome and ends.
DrawOutcome ==
  /\ app = "sections" /\ pc[MainThread].at = "returned"
  /\ ui' = ui \o OutcomeOf(pc[MainThread].fn, pc[MainThread].result)
  /\ pc' = [pc EXCEPT ![MainThread] = Idle]
  /\ UNCHANGED <<app, calls, env, csv, projects_df, vectorizer, tfidf_matrix, df, cache, http,
                 public_api, net, session_state, track, first, last>>

\* A session that has not drawn a section yet.
InitSections ==
  /\ app = "sections"
  /\ env \in {e \in Envs : e.ties = "index_order" /\ e.hash_seed = 0}
  /\ public_api = None /\ net = QuietNet
  /\ csv = None /\ pc = [t \in {MainThread} |-> Idle] /\ df = None
  /\ projects_df = None /\ vectorizer = None /\ tfidf_matrix = None
  /\ cache = <<>> /\ ui = <<>> /\ http = None /\ session_state = None
  /\ track = FALSE
  /\ first = None /\ last = None
  /\ calls = <<>>

NextSections ==
  \/ \E submitted \in BOOLEAN, search_query \in TextInputs, search_limit \in SearchLimitInputs,
        sources \in SUBSET AllSources, replies \in SessionReplies :
       RunStartupSearchSection(submitted, search_query, search_limit, sources, replies)
  \/ \E clicked \in BOOLEAN, replies \in SessionReplies :
       RunTrendingStartupsSection(clicked, replies)
  \/ \E submitted \in BOOLEAN, insight_query \in TextInputs, replies \in SessionReplies :
       RunInsightsSection(submitted, insight_query, replies)
  \/ \E clicked \in BOOLEAN : RunApiSettingsSection(clicked)
  \/ RequestStep(MainThread)
  \/ Tick
  \/ DrawOutcome

SpecSections == InitSections /\ [][NextSections]_vars

(***************************************************************************)
(* streamlit_app_with_apis.py with add_startup_data_to_sidebar and         *)
(* render_startup_data_pages.  Every interaction of the user reruns the    *)
(* script: `pressed` is the button or form of that interaction, and it is  *)
(* True only in that run and only where the widget is drawn.  pc is the    *)
(* page the selectbox shows, session_state is st.session_state, ui is what *)
(* the last run drew.                                                      *)
(***************************************************************************)
WithApisPages == {"Home", "AI Idea Matcher", "Analytics Dashboard", "Public API Data", "Settings"}

\* The sidebar buttons and the key each sets.
SidebarFlags ==
  [sidebar_search_projects |-> "show_startup_search",
   sidebar_trending_projects |-> "show_trending",
   sidebar_market_insights |-> "show_insights",
   sidebar_api_settings |-> "show_api_settings"]

\* st.session_state.get(key, False)
GetFlag(state, key) == IF key \in DOMAIN state THEN state[key] ELSE FALSE

\* st.session_state[key] = value
SetFlag(state, key, value) == Updated(state, [k \in {key} |-> value])

\* add_startup_data_to_sidebar()
AddStartupDataToSidebar(state, pressed) ==
  IF pressed \in DOMAIN SidebarFlags THEN SetFlag(state, SidebarFlags[pressed], TRUE)
  ELSE state

\* The section that the key opens, drawn with the widget values of the run.
SectionOf(key, world, pressed, text, replies) ==
  CASE key = "show_startup_search" ->
         RenderStartupSearchSection(world, pressed = "startup_search_form", text, 20,
                                    AllSources, replies)
    [] key = "show_trending" ->
         RenderTrendingStartupsSection(world, pressed = "trending_button", replies)
    [] key = "show_insights" ->
         RenderInsightsSection(world, pressed = "insights_form", text, replies)
    [] key = "show_api_settings" ->
         RenderApiSettingsSection(world, pressed = "check_usage_button")

\* One `if st.session_state.get(key, False):` block of
\* render_startup_data_pages: the section drawn after what was drawn, and
\* the key set to False.
DataPage(sofar, key, pressed, text, replies) ==
  IF GetFlag(sofar.session_state, key)
    THEN Once(SectionOf(key, sofar.net, pressed, text, replies),
              LAMBDA out :
                [session_state |-> SetFlag(sofar.session_state, key, FALSE),
                 net |-> out.net,
                 manager |-> IF out.manager # None THEN out.manager ELSE sofar.manager,
                 shown |-> sofar.shown \o out.shown])
    ELSE sofar

\* The blocks of render_startup_data_pages, in the order of the code.
DataPageKeys == <<"show_startup_search", "show_trending", "show_insights", "show_api_settings">>

RECURSIVE DataPages(_, _, _, _, _)
DataPages(sofar, keys, pressed, text, replies) ==
  IF keys = <<>> THEN sofar
  ELSE \* the blocks before the last, then the last
       Once(DataPages(sofar, SubSeq(keys, 1, Len(keys) - 1), pressed, text, replies),
            LAMBDA before : DataPage(before, keys[Len(keys)], pressed, text, replies))

\* render_startup_data_pages()
RenderStartupDataPages(state, world, pressed, text, replies) ==
  DataPages([session_state |-> state, net |-> world, manager |-> None, shown |-> <<>>],
            DataPageKeys, pressed, text, replies)

\* render_analytics_page(): the button 'Analyze Trends' with tech_query
\* typed makes a StartupDataManager (327) and calls get_market_insights on
\* it (328), a method the class does not have: the AttributeError is shown
\* by st.error (348) and no GET is sent.
RenderAnalyticsPage(state, world, clicked, tech_query) ==
  [session_state |-> state, net |-> world,
   manager |-> IF clicked /\ tech_query # "" THEN NewPublicApi ELSE None,
   shown |-> <<Element("Analytics Dashboard")>>
             \o (IF ~clicked THEN <<>>
                 ELSE IF tech_query # ""
                   THEN <<[element |-> "error", text |-> "Error analyzing trends",
                           cause |-> "AttributeError"]>>
                 ELSE <<Element("warning")>>)]

\* render_settings_page(): every run makes a StartupDataManager (376) and
\* shows its usage statistics.
RenderSettingsPage(state, world) ==
  LET manager == NewPublicApi
      usage_stats == ManagerUsageStats(manager)
  IN [session_state |-> state, net |-> world, manager |-> manager,
      shown |-> <<Element("Settings"), Element("success"),
                  [element |-> "settings_metrics",
                   requests_made |-> usage_stats.total_requests,
                   remaining_requests |-> usage_stats.public_apis.remaining_requests,
                   apis_used |-> Len(usage_stats.public_apis.apis_used)]>>]

\* The script from the sidebar down (lines 561-585): the sidebar buttons,
\* then the page chosen.
WithApisRun(state, world, page, pressed, text, replies) ==
  LET clicked == AddStartupDataToSidebar(state, pressed)
  IN IF page = "Public API Data"
       THEN RenderStartupDataPages(clicked, world, pressed, text, replies)
     ELSE IF page = "Analytics Dashboard"
       THEN RenderAnalyticsPage(clicked, world, pressed = "analyze_trends_button", text)
     ELSE IF page = "Settings"
       THEN RenderSettingsPage(clicked, world)
     ELSE [session_state |-> clicked, net |-> world, manager |-> None,
           shown |-> <<Element(page)>>]

\* A rerun of the script after an interaction.
Rerun(fn, page, pressed, text, replies) ==
  /\ \E out \in {WithApisRun(session_state, net, page, pressed, text, replies)} :
       /\ session_state' = out.session_state
       /\ net' = out.net
       /\ public_api' = out.manager
       /\ ui' = out.shown
  /\ pc' = page
  /\ last' = [fn |-> fn, pressed |-> pressed, text |-> text]
  /\ UNCHANGED <<app, calls, env, csv, projects_df, vectorizer, tfidf_matrix, df, cache, http,
                 track, first>>

Drawn(element) == \E i \in 1..Len(ui) : ui[i] = Element(element)

\* The user chooses a page in the selectbox.
ChoosePage(page) ==
  /\ app = "with_apis" /\ page # pc
  /\ \E replies \in SessionReplies : Rerun("choose_page", page, "none", "", replies)

\* The user clicks one of the four sidebar buttons.
ClickSidebarButton(button) ==
  /\ app = "with_apis"
  /\ \E replies \in SessionReplies : Rerun("click_sidebar_button", pc, button, "", replies)

\* The user clicks 'Analyze Trends' on the Analytics Dashboard with
\* tech_query in the text input.
ClickAnalyzeTrends(tech_query) ==
  /\ app = "with_apis" /\ Drawn("Analytics Dashboard")
  /\ \E replies \in SessionReplies :
       Rerun("click_analyze_trends", pc, "analyze_trends_button", tech_query, replies)

\* The user submits the search form that is on the page.
SubmitStartupSearchForm(search_query) ==
  /\ app = "with_apis" /\ Drawn("startup_search_form")
  /\ \E replies \in SessionReplies :
       Rerun("submit_startup_search_form", pc, "startup_search_form", search_query, replies)

\* The user clicks 'Get Trending Projects'.
ClickGetTrendingProjects ==
  /\ app = "with_apis" /\ Drawn("trending_button")
  /\ \E replies \in SessionReplies :
       Rerun("click_get_trending_projects", pc, "trending_button", "", replies)

\* The user submits the insights form.
SubmitInsightsForm(insight_query) ==
  /\ app = "with_apis" /\ Drawn("insights_form")
  /\ \E replies \in SessionReplies :
       Rerun("submit_insights_form", pc, "insights_form", insight_query, replies)

\* The user clicks 'Check API Usage'.
ClickCheckApiUsage ==
  /\ app = "with_apis" /\ Drawn("check_usage_button")
  /\ \E replies \in SessionReplies :
       Rerun("click_check_api_usage", pc, "check_usage_button", "", replies)

\* The first run of the script: the page is Home and no key is set.
InitWithApis ==
  /\ app = "with_apis"
  /\ env \in {e \in Envs : e.ties = "index_order" /\ e.hash_seed = 0}
  /\ public_api = None /\ net = QuietNet
  /\ session_state = <<>>
  /\ pc = "Home" /\ ui = <<Element("Home")>>
  /\ csv = None /\ df = None
  /\ projects_df = None /\ vectorizer = None /\ tfidf_matrix = None
  /\ cache = <<>> /\ http = None
  /\ track = FALSE
  /\ first = None /\ last = None
  /\ calls = <<>>

NextWithApis ==
  \/ \E page \in WithApisPages : ChoosePage(page)
  \/ \E button \in DOMAIN SidebarFlags : ClickSidebarButton(button)
  \/ \E tech_query \in TextInputs : ClickAnalyzeTrends(tech_query)
  \/ \E search_query \in TextInputs : SubmitStartupSearchForm(search_query)
  \/ ClickGetTrendingProjects
  \/ \E insight_query \in TextInputs : SubmitInsightsForm(insight_query)
  \/ ClickCheckApiUsage

SpecWithApis == InitWithApis /\ [][NextWithApis]_vars

(***************************************************************************)
(* streamlit_app_enhanced.py: the AI Idea Matcher and the Market            *)
(* Intelligence page of one session.  df is st.session_state.df, the data   *)
(* load_enhanced_data returned; session_state holds analysis_results and    *)
(* user_idea; ui is what the last run drew.                                 *)
(***************************************************************************)
\* Rows of the loaded data: title, description, category, subcategory_1.
\* No description of the pool holds a GitHub link.
EnhancedPool ==
  { [title |-> <<"Helper">>, description |-> <<"AI", "chatbot">>,
     category |-> <<"support">>, subcategory_1 |-> <<"service">>],
    [title |-> <<"Desk">>, description |-> <<"crm", "tracker">>,
     category |-> <<"support">>, subcategory_1 |-> <<"ticketing">>] }

EnhancedFrames == {[rows |-> c] : c \in SeqsUpTo(EnhancedPool, MaxProdDocs)}

\* preprocess_text_enhanced
PreprocessTextEnhanced(text) == ProdPreprocessText(text)

\* TfidfVectorizer(max_features=1000, stop_words='english', ngram_range=(1, 2))
EnhancedConfig == [stop |-> EnglishStopWords, ngram_max |-> 2, min_df |-> 1, max_df_pct |-> 100]

\* ' '.join(text_parts) of a row.
EnhancedProjectText(row) == row.title \o row.description \o row.category \o row.subcategory_1

RECURSIVE EnhancedCollect(_, _, _)
\* The loop over top_indices: the rows above the threshold, each with its
\* similarity_score and github_url.
EnhancedCollect(indices, sims, rows) ==
  IF indices = <<>> THEN <<>>
  ELSE LET idx == Head(indices)
           rest == EnhancedCollect(Tail(indices), sims, rows)
       IN IF AboveThreshold(sims[idx])
            THEN << Updated(rows[idx], [similarity_score |-> sims[idx],
                                        github_url |-> None]) >> \o rest
            ELSE rest

\* find_similar_projects_enhanced(user_query, df, top_k): the list returned
\* and whether the except clause showed 'Error in AI matching'.
FindSimilarProjectsEnhanced(user_query, frame, top_k, e) ==
  IF frame.rows = <<>> THEN [results |-> <<>>, error |-> FALSE]
  ELSE Once(FitTransform([i \in 1..Len(frame.rows) |-> EnhancedProjectText(frame.rows[i])],
                         EnhancedConfig),
            LAMBDA fit :
              IF ~fit.ok THEN [results |-> <<>>, error |-> TRUE]
              ELSE Once(CosineSimilarity(Transform(fit.vectorizer,
                                                   PreprocessTextEnhanced(user_query)),
                                         fit.matrix),
                        LAMBDA similarities :
                          [results |-> EnhancedCollect(TopIndices(similarities, top_k, e.ties),
                                                       similarities, frame.rows),
                           error |-> FALSE]))

\* The ideas typed into the text area.
EnhancedQueries == {<<>>, <<"!!!">>, <<"AI", "chatbot">>, <<"crm">>, <<"Ledger">>}

\* {}: a dict without keys.
EmptyDict == [key \in {} |-> None]

\* show_ai_matcher with 'Find Similar Projects' pressed and user_query in the
\* text area.
ClickFindSimilarProjects(user_query) ==
  /\ app = "enhanced"
  /\ IF IsBlank(user_query)
       THEN /\ ui' = <<>>
            /\ UNCHANGED session_state
       ELSE \E out \in {FindSimilarProjectsEnhanced(user_query, df, 5, env)} :
              IF out.results # <<>>
                THEN /\ session_state' =
                          [user_idea |-> user_query,
                           analysis_results |-> [similar_projects |-> out.results,
                                                 user_query |-> user_query]]
                     /\ ui' = <<Element("success"),
                                [element |-> "project_matches", user_query |-> user_query],
                                [element |-> "market_intelligence", user_query |-> user_query]>>
                ELSE /\ session_state' = [session_state EXCEPT !.user_idea = user_query]
                     /\ ui' = (IF out.error THEN <<Element("error")>> ELSE <<>>)
                                \o <<Element("warning")>>
  /\ last' = [fn |-> "show_ai_matcher", user_query |-> user_query]
  /\ UNCHANGED <<app, calls, env, csv, pc, projects_df, vectorizer, tfidf_matrix, df, cache, http,
                 public_api, net, track, first>>

\* show_market_intelligence(): the page drawn from analysis_results.
ShowMarketIntelligence ==
  /\ app = "enhanced"
  /\ ui' = IF DOMAIN session_state.analysis_results # {}
             THEN IF session_state.analysis_results.similar_projects # <<>>
                    THEN <<[element |-> "market_intelligence",
                            user_query |-> session_state.analysis_results.user_query]>>
                    ELSE <<Element("warning")>>
             ELSE <<Element("info")>>
  /\ last' = [fn |-> "show_market_intelligence"]
  /\ UNCHANGED <<app, calls, env, csv, pc, projects_df, vectorizer, tfidf_matrix, df, cache, http,
                 public_api, net, session_state, track, first>>

\* The session after lines 224-227, with the data loaded.
InitEnhanced ==
  /\ app = "enhanced"
  /\ env \in {e \in Envs : e.hash_seed = 0}
  /\ df \in EnhancedFrames
  /\ session_state = [analysis_results |-> EmptyDict, user_idea |-> <<>>]
  /\ csv = None /\ pc = "idle"
  /\ projects_df = None /\ vectorizer = None /\ tfidf_matrix = None
  /\ cache = <<>> /\ ui = <<>> /\ http = None
  /\ public_api = None /\ net = None
  /\ track = FALSE
  /\ first = None /\ last = None
  /\ calls = <<>>

NextEnhanced ==
  \/ \E user_query \in EnhancedQueries : ClickFindSimilarProjects(user_query)
  \/ ShowMarketIntelligence

SpecEnhanced == InitEnhanced /\ [][NextEnhanced]_vars

(***************************************************************************)
(* rag_api.py: POST /api/similar-projects on the module's rag_service.     *)
(***************************************************************************)

\* A value of the JSON body: absent key, null, a string (its words, and the
\* number of whitespace characters around them), an integer, a float.
JMissing == [type |-> "missing"]
JNull == [type |-> "null"]
JString(text, spaces) == [type |-> "string", text |-> text, spaces |-> spaces]
JInt(n) == [type |-> "int", value |-> n]
JFloat == [type |-> "float"]

\* The requests: no JSON body, a JSON array, or a JSON object with or
\* without the keys idea and limit.
ApiIdeas ==
  {JMissing, JNull, JInt(7), JString(<<>>, 0), JString(<<>>, 3),
   JString(<<"!!!">>, 0), JString(<<"chatbot", "support">>, 0), JString(<<"AI", "chatbot">>, 2)}

ApiLimits == {JMissing, JNull, JFloat, JString(<<"crm">>, 0)} \cup {JInt(k) : k \in Limits}

ApiRequests ==
  {[body |-> "absent", idea |-> JMissing, limit |-> JMissing],
   [body |-> "array", idea |-> JMissing, limit |-> JMissing]}
    \cup [body : {"object"}, idea : ApiIdeas, limit : ApiLimits]

DefaultLimit == 5

\* An exception that leaves the handler: Flask answers it, not the code.
ApiReraise(error, ranked) ==
  [status |-> 0, escaped |-> TRUE, ranked |-> ranked, body |-> [error |-> error]]

\* except Exception as e: return jsonify({'error': str(e)}), 500
ApiExcept(error, ranked) ==
  [status |-> 500, escaped |-> FALSE, ranked |-> ranked, body |-> [error |-> error]]

\* The handler find_similar_projects of rag_api: the response, whether an
\* exception escaped, and whether rag_service.find_similar_projects was
\* called.
ApiFindSimilarProjects(request, frame, vec, matrix, e) ==
  IF request.body = "absent"
    THEN ApiExcept("get_json: no JSON body", FALSE)
  ELSE IF request.body = "array"
    THEN ApiExcept("AttributeError: 'list' object has no attribute 'get'", FALSE)
  ELSE LET user_idea == IF request.idea.type = "missing" THEN JString(<<>>, 0) ELSE request.idea
           limit == IF request.limit.type = "missing" THEN JInt(DefaultLimit) ELSE request.limit
       IN IF user_idea.type # "string"
            THEN ApiExcept("AttributeError: object has no attribute 'strip'", FALSE)
          ELSE IF IsBlank(user_idea.text)
            THEN [status |-> 400, escaped |-> FALSE, ranked |-> FALSE,
                  body |-> [error |-> "Please provide an idea"]]
          ELSE IF limit.type # "int"
            THEN ApiExcept("TypeError: bad operand for unary - or slice index", TRUE)
          ELSE LET out == FindSimilarProjects(frame, vec, matrix, user_idea.text, limit.value, e)
               IN IF out.raised THEN ApiExcept(out.error, TRUE)
                  ELSE [status |-> 200, escaped |-> FALSE, ranked |-> TRUE,
                        body |-> [success |-> TRUE, matches |-> out.results,
                                  total_found |-> Len(out.results)]]

\* One request handled by the server whose import of rag_api succeeded;
\* failed_before tells whether an earlier request was answered 500.
PostSimilarProjects(request) ==
  /\ app = "rag" /\ pc = "ready"
  /\ http' = [request |-> request,
              response |-> ApiFindSimilarProjects(request, projects_df, vectorizer,
                                                  tfidf_matrix, env),
              failed_before |-> IF http = None THEN FALSE
                                ELSE http.failed_before \/ http.response.status = 500]
  /\ UNCHANGED <<app, calls, env, csv, pc, projects_df, vectorizer, tfidf_matrix, df, cache, ui,
                 public_api, net, session_state, track, first, last>>

\* The module's rag_service is built on a file of MaxDocs rows; the process
\* has the hash seed 0.
InitApi ==
  /\ InitRag
  /\ Len(csv.rows) = MaxDocs
  /\ env.hash_seed = 0

NextApi ==
  \/ Construct
  \/ \E request \in ApiRequests : PostSimilarProjects(request)

SpecApi == InitApi /\ [][NextApi]_vars

\* The limits a caller may pass: rag_api hands data.get('limit', 5) to
\* find_similar_projects as it comes, zero and negative numbers included.
AnyLimits == (0 - MaxLimit)..MaxLimit

NextAnyLimit ==
  \/ Construct
  \/ \E q \in Queries, k \in AnyLimits : Query(q, k)

SpecAnyLimit == InitApi /\ [][NextAnyLimit]_vars

NextRag == Construct \/ \E q \in Queries, k \in Limits : Query(q, k)

Init == InitRag \/ InitProd

Next == NextRag \/ NextProd

Spec == Init /\ [][Next]_vars


(***************************************************************************)
(* Properties.                                                             *)
(***************************************************************************)

\* C1: find_similar_projects(q, k) with k >= 1 returns exactly min(k, m)
\* results, m being the number of records whose cosine similarity to q is
\* above 0.01, and every returned record is one of those m (rag_service and
\* streamlit_app_production; where fitting fails no similarity exists and
\* the list is empty).
C1_ExactlyMinOfLimitAndMatches ==
  /\ (app = "rag" /\ last # None) =>
       LET sims == CosineSimilarity(Transform(vectorizer, last.user_idea), tfidf_matrix.rows)
           m == Cardinality({i \in 1..Len(sims) : sims[i] > One \div 100})
           results == last.outcome.results
       IN /\ ~last.outcome.raised
          /\ Len(results) = Min(last.limit, m)
          /\ \A p \in 1..Len(results) : sims[results[p].id + 1] > One \div 100
          /\ \A p, q \in 1..Len(results) : p # q => results[p].id # results[q].id
  /\ (app = "prod" /\ last # None) =>
       LET fit == FitTransform([i \in 1..Len(df.rows) |-> ProdDescription(df.rows[i])], ProdConfig)
           results == last.outcome.results
       IN IF df.rows = <<>> THEN results = <<>>
          ELSE IF ~fit.ok THEN results = <<>>
          ELSE LET sims == CosineSimilarity(
                             Transform(fit.vectorizer, ProdPreprocessText(last.user_idea)),
                             fit.matrix)
                   m == Cardinality({i \in 1..Len(sims) : sims[i] > One \div 100})
               IN /\ Len(results) = Min(last.limit, m)
                  /\ \A p \in 1..Len(results) :
                       \E i \in 1..Len(sims) : /\ df.rows[i] = results[p].project
                                               /\ sims[i] > One \div 100

\* C2: in every list ProjectRAGService.find_similar_projects returns, each
\* similarity_score is between 0 and 100 (0..10000 hundredths) and no
\* result has a higher score than the one before it.
C2_ScoresBoundedAndNonIncreasing ==
  (app = "rag" /\ last # None) =>
    LET results == last.outcome.results
    IN /\ \A p \in 1..Len(results) :
            results[p].similarity_score >= 0 /\ results[p].similarity_score <= 10000
       /\ \A p \in 1..(Len(results) - 1) :
            results[p + 1].similarity_score <= results[p].similarity_score

\* A query with the text of a record: the first result has the score 100,
\* from a cosine the normalisations left off 1.0, and the second result a
\* lower score.
C2_Witness ==
  /\ app = "rag" /\ last # None
  /\ Len(last.outcome.results) >= 2
  /\ last.outcome.results[1].similarity_score = 10000
  /\ last.outcome.results[2].similarity_score < 10000
  /\ CosineSimilarity(Transform(vectorizer, last.user_idea), tfidf_matrix.rows)
        [last.outcome.results[1].id + 1] # One

\* C3: two records of identical similarity to the query are listed in corpus
\* order, the smaller row index first, also where the cut at `limit` lets
\* only one of them through.
C3_TiesInCorpusOrder ==
  (app = "rag" /\ last # None) =>
    LET sims == CosineSimilarity(Transform(vectorizer, last.user_idea), tfidf_matrix.rows)
        results == last.outcome.results
    IN \A i, j \in 1..Len(sims) :
         (i < j /\ sims[i] = sims[j] /\ \E q \in 1..Len(results) : results[q].id = j - 1)
           => \E p, q \in 1..Len(results) :
                p < q /\ results[p].id = i - 1 /\ results[q].id = j - 1

\* C4: on one constructed service, a call that returns with the idea and the
\* limit of the first call that returned has the outcome of that first call
\* (same records, order, scores and match_reason), whatever calls other
\* threads made or have in progress in between.
C4_SameCallSameResults ==
  (app = "rag" /\ first # None /\ last # None
     /\ last.user_idea = first.call.user_idea /\ last.limit = first.call.limit)
    => last.outcome = first.call.outcome

\* The first call repeated after a call with another idea has returned; its
\* results list two shared words in match_reason, and when it returns the
\* other thread is in the loop (77) of a call with another idea.
C4_Witness ==
  /\ app = "rag" /\ first # None /\ last # None
  /\ first.between
  /\ last.user_idea = first.call.user_idea /\ last.limit = first.call.limit
  /\ last.outcome.results # <<>>
  /\ Len(last.outcome.results[1].match_reason.words) >= 2
  /\ \E t \in DOMAIN calls :
       /\ calls[t] # None
       /\ calls[t].line = 77
       /\ calls[t].user_idea # last.user_idea

\* C5: for every non-empty corpus the construction of the service succeeds,
\* and a query with the document text of a record r returns r first or with
\* the similarity of the first result.
C5_SelfQueryRanksFirst ==
  (app = "rag" /\ csv.readable /\ csv.rows # <<>> /\ pc # "new") =>
    /\ pc = "ready"
    /\ last # None =>
         LET sims == CosineSimilarity(Transform(vectorizer, last.user_idea), tfidf_matrix.rows)
             results == last.outcome.results
         IN \A i \in 1..Len(projects_df.rows) :
              last.user_idea = DocText(projects_df.rows[i]) =>
                results # <<>> /\ sims[i] = sims[results[1].id + 1]

\* C6: a query that is empty or normalises to the empty string, on a
\* non-empty corpus, raises nothing and returns a list; ProjectRAGService
\* returns the empty list.
C6_EmptyQueryReturnsList ==
  /\ (app = "rag" /\ last # None /\ projects_df.rows # <<>>
        /\ ProdPreprocessText(last.user_idea) = <<>>)
       => ~last.outcome.raised /\ last.outcome.results = <<>>
  /\ (app = "prod" /\ last # None /\ df.rows # <<>>
        /\ ProdPreprocessText(last.user_idea) = <<>>)
       => ~last.outcome.raised

\* A punctuation-only query answered by a service with records.
C6_Witness ==
  /\ app = "rag" /\ last # None /\ projects_df.rows # <<>>
  /\ last.user_idea = <<"!!!">>
  /\ ~last.outcome.raised /\ last.outcome.results = <<>>

\* C7: what find_similar_projects of streamlit_app_production hands its
\* caller (the list and the messages it shows) for an empty DataFrame or for
\* one on which fitting fails differs from what it hands over for a valid
\* query on a DataFrame where fitting succeeds and no record is above the
\* threshold.
C7_FailureDistinctFromNoMatch ==
  (app = "prod" /\ last # None) =>
    LET Descriptions(frame) == [i \in 1..Len(frame.rows) |-> ProdDescription(frame.rows[i])]
        Handed(out) == [results |-> out.results, messages |-> out.messages]
        failed == IF df.rows = <<>> THEN TRUE
                  ELSE ~FitTransform(Descriptions(df), ProdConfig).ok
    IN failed =>
         \A frame \in ProdFrames, q \in ProdQueries :
           LET out == ProdFindSimilarProjects(q, frame, last.limit, env)
               valid == IF frame.rows = <<>> \/ ProdPreprocessText(q) = <<>> THEN FALSE
                        ELSE FitTransform(Descriptions(frame), ProdConfig).ok
           IN (valid /\ out.results = <<>>) => Handed(out) # Handed(last.outcome)

\* C8: in find_similar_projects of streamlit_app_production on a non-empty
\* DataFrame, a failure of fitting is caught: no exception escapes, the
\* result is the empty list, an error message carries the cause; and the
\* outcome of a call is the outcome of that query on that DataFrame alone,
\* whatever calls failed before it.
C8_FailureCaughtAndReported ==
  (app = "prod" /\ last # None /\ df.rows # <<>>) =>
    LET fit == FitTransform([i \in 1..Len(df.rows) |-> ProdDescription(df.rows[i])], ProdConfig)
        out == last.outcome
    IN /\ ~out.raised
       /\ ~fit.ok =>
            /\ out.results = <<>>
            /\ \E p \in 1..Len(out.messages) :
                 out.messages[p].level = "error" /\ out.messages[p].cause = fit.error
       /\ out = ProdFindSimilarProjects(last.user_idea, df, last.limit, env)

\* A call on a DataFrame of one row: fitting fails, the list is empty and
\* the page shows the error.
C8_Witness ==
  /\ app = "prod" /\ last # None
  /\ Len(df.rows) = 1
  /\ last.outcome.results = <<>>
  /\ ui # <<>> /\ ui[1].level = "error"
  /\ ui[1].cause = "max_df corresponds to < documents than min_df"

\* C9: in streamlit_app_fixed the DataFrame of a run is the one loaded from
\* the file now in the uploader, and the results shown are those of the
\* query on that DataFrame: records of it, scored by a vectorizer fitted on
\* it alone.
C9_ResultsFromCurrentDataset ==
  app = "fixed" =>
    /\ df = LoadProjectData(csv).df
    /\ last # None =>
         /\ last.outcome =
              FixedFindSimilarProjects(last.user_idea, LoadProjectData(csv).df, last.limit, env)
         /\ \A p \in 1..Len(last.outcome.results) :
              \E i \in 1..Len(csv.rows) :
                /\ csv.rows[i].name = last.outcome.results[p].title
                /\ csv.rows[i].detailed_description = last.outcome.results[p].description

\* Results shown for a file uploaded after another file had been loaded.
C9_Witness ==
  /\ app = "fixed" /\ last # None
  /\ last.outcome.results # <<>>
  /\ \E f \in DOMAIN cache : f.uploaded /\ f.readable /\ f # csv

\* C10: at every point of a rebuild at which a query can run, projects_df,
\* vectorizer and tfidf_matrix belong to one corpus: the vectorizer and the
\* matrix are the ones fitted on the records of projects_df.
C10_QuerySeesOneCorpus ==
  (app = "rag" /\ pc \in Serving) =>
    LET fit == FitTransform(TextData(Cleaned(projects_df.rows)), RagConfig)
    IN /\ fit.ok
       /\ vectorizer = fit.vectorizer
       /\ tfidf_matrix = [rows |-> fit.matrix]

\* C11: a request whose idea is blank (absent from the JSON object, null,
\* the empty string or only whitespace) is answered 400 and the ranker is
\* not called.
C11_BlankIdeaAnswers400 ==
  (app = "rag" /\ http # None /\ http.request.body = "object"
     /\ \/ http.request.idea.type \in {"missing", "null"}
        \/ http.request.idea.type = "string" /\ http.request.idea.text = <<>>)
    => http.response.status = 400 /\ ~http.response.ranked

\* C12: every request is answered 400 (blank idea), 500 with an error
\* message, or 200 with success and total_found = len(matches); no exception
\* escapes the handler; rag_service stays as constructed, so the answer is
\* the one the request gets from the service as constructed.
C12_OneOfThreeResponses ==
  (app = "rag" /\ http # None) =>
    LET r == http.response
        fit == FitTransform(TextData(projects_df.rows), RagConfig)
    IN /\ ~r.escaped
       /\ r.status \in {200, 400, 500}
       /\ r.status = 400 =>
            /\ r.body.error # ""
            /\ http.request.idea.type \in {"missing", "string"}
            /\ http.request.idea.type = "string" => http.request.idea.text = <<>>
       /\ r.status = 500 => r.body.error # ""
       /\ r.status = 200 =>
            r.body.success /\ r.body.total_found = Len(r.body.matches)
       /\ projects_df = [rows |-> [i \in 1..Len(csv.rows) |-> CleanRow(csv.rows[i])]]
       /\ vectorizer = fit.vectorizer /\ tfidf_matrix = [rows |-> fit.matrix]
       /\ r = ApiFindSimilarProjects(http.request, projects_df, fit.vectorizer,
                                     [rows |-> fit.matrix], env)

\* A request answered 200 with matches after an earlier request was
\* answered 500.
C12_Witness ==
  /\ app = "rag" /\ http # None
  /\ http.failed_before
  /\ http.response.status = 200
  /\ http.response.body.total_found >= 1

\* C13: prepare_embeddings indexes one document per record, in record
\* order: the record's ai_summary if that is not blank, else its description
\* if that is not blank, else its name.
C13_OneDocumentPerRecord ==
  (app = "rag" /\ pc = "ready") =>
    LET rows == projects_df.rows
        docs == [i \in 1..Len(rows) |->
                   IF rows[i].ai_summary # <<>> THEN rows[i].ai_summary
                   ELSE IF rows[i].description # <<>> THEN rows[i].description
                   ELSE rows[i].name]
        fit == FitTransform(docs, RagConfig)
    IN /\ Len(tfidf_matrix.rows) = Len(rows)
       /\ fit.ok
       /\ vectorizer = fit.vectorizer
       /\ tfidf_matrix.rows = fit.matrix

\* A constructed service whose records show the three choices, the record
\* indexed by its name first.
C13_Witness ==
  /\ app = "rag" /\ pc = "ready"
  /\ Len(projects_df.rows) = 3
  /\ projects_df.rows[1].ai_summary = <<>> /\ projects_df.rows[1].description = <<>>
  /\ projects_df.rows[2].ai_summary # <<>> /\ projects_df.rows[2].description # <<>>
  /\ projects_df.rows[3].ai_summary = <<>> /\ projects_df.rows[3].description # <<>>
  /\ tfidf_matrix.rows[1] # tfidf_matrix.rows[2] /\ tfidf_matrix.rows[2] # tfidf_matrix.rows[3]

\* C14: in a result list the ids are pairwise distinct row indices of the
\* loaded corpus, and the name, description, ai_summary and score given with
\* id i are those of record i: the score is the similarity of the query to
\* the document of record i, which is row i of the fitted matrix.
C14_IdNamesItsRecord ==
  (app = "rag" /\ last # None) =>
    LET results == last.outcome.results
        rows == projects_df.rows
        qv == Transform(vectorizer, last.user_idea)
    IN /\ \A p, q \in 1..Len(results) : p # q => results[p].id # results[q].id
       /\ \A p \in 1..Len(results) :
            LET i == results[p].id + 1
            IN /\ i \in 1..Len(rows)
               /\ results[p].name = rows[i].name
               /\ results[p].description = rows[i].description
               /\ results[p].ai_summary = rows[i].ai_summary
               /\ tfidf_matrix.rows[i] = Transform(vectorizer, DocText(rows[i]))
               /\ results[p].similarity_score =
                    RagScore(CosineSimilarity(qv, <<Transform(vectorizer, DocText(rows[i]))>>)[1])

\* Two results of different records and different scores, the later record
\* listed first.
C14_Witness ==
  /\ app = "rag" /\ last # None
  /\ Len(last.outcome.results) = 2
  /\ last.outcome.results[1].id > last.outcome.results[2].id
  /\ last.outcome.results[1].name # last.outcome.results[2].name
  /\ last.outcome.results[1].similarity_score > last.outcome.results[2].similarity_score

\* C15: extract_github_url and extract_github_url_enhanced round-trip: a
\* description that embeds https://github.com/<owner>/<repo>, whatever the
\* text around it, gives exactly that URL; a description with no GitHub
\* reference (a str without one, '', None, NaN) gives None and no exception.
C15_ExtractRoundTrips ==
  (app = "links" /\ last # None
     /\ last.fn \in {"extract_github_url", "extract_github_url_enhanced"}) =>
    LET description == df.rows[1].description
        url == <<"https://", "github.com/", "acme", "/", "tool">>
        Embeds ==
          /\ description.kind = "str"
          /\ \E b \in TextBefore, a \in TextAfter : description.text = b \o url \o a
        NoReference ==
          \/ description.kind # "str"
          \/ \A i \in 1..Len(description.text) :
               description.text[i] \notin {"github.com/", "GitHub.com/", "@"}
    IN /\ Embeds =>
            ~last.outcome.raised /\ ~last.outcome.none /\ last.outcome.url = url
       /\ NoReference => ~last.outcome.raised /\ last.outcome.none

\* C16: every value other than None that extract_github_url or
\* extract_github_url_enhanced returns is the match of the first pattern of
\* the list that matches in the text, and begins with https:// followed by
\* github.com/<owner>/<repo>, for an http:// or https:// URL, a bare
\* github.com/<owner>/<repo> and an @owner/repo mention alike.
C16_FirstMatchWithHttps ==
  (app = "links" /\ last # None
     /\ last.fn \in {"extract_github_url", "extract_github_url_enhanced"}
     /\ ~last.outcome.raised /\ ~last.outcome.none) =>
    LET text == df.rows[1].description.text
        url == last.outcome.url
        count == IF last.fn = "extract_github_url" THEN 2 ELSE 3
        matching == {k \in 1..count : Search(text, k) # <<>>}
        n == last.outcome.pattern
    IN /\ n \in matching /\ \A k \in matching : k >= n
       /\ Search(text, n) = SubSeq(url, Len(url) - Len(Search(text, n)) + 1, Len(url))
       /\ Len(url) >= 5
       /\ url[1] = "https://" /\ url[2] = "github.com/"
       /\ url[3] \in OwnerClass /\ url[4] = "/" /\ url[5] \in RepoClass

\* C17: in a match built by any of the find_similar_projects variants, a
\* record that carries a non-empty github_url of its own keeps exactly that
\* value; the description is consulted only when the record has none.
C17_OwnGithubUrlKept ==
  (app = "links" /\ last # None
     /\ last.fn \in {"production.match", "enhanced.match", "fixed.match"}
     /\ df.rows[1].github_url.kind = "str" /\ df.rows[1].github_url.text # <<>>) =>
    ~last.outcome.raised /\ last.outcome.github_url = df.rows[1].github_url

\* C18: _generate_match_reason answers 'Shared concepts' with at least one
\* and at most three tokens, each longer than 3 characters and each a member
\* of both the lowercased whitespace-split query and the lowercased
\* whitespace-split project text (ai_summary and description), whenever such
\* a token exists; otherwise it answers the generic message with no token.
C18_SharedConcepts ==
  (app = "reason" /\ last # None) =>
    LET idea == Lower(df.user_idea)
        text == Lower(df.project.ai_summary) \o Lower(df.project.description)
        shared == {w \in {idea[i] : i \in 1..Len(idea)} \cap {text[i] : i \in 1..Len(text)} :
                     Len(w) > 3}
        reason == last.outcome
    IN IF shared # {}
         THEN /\ reason.kind = "Shared concepts"
              /\ Len(reason.words) \in 1..3
              /\ \A i \in 1..Len(reason.words) : reason.words[i] \in shared
         ELSE reason.kind = "Semantic similarity in project context" /\ reason.words = <<>>

\* A query and a record that share more than three long words, one of them
\* through lowercasing, and also two short ones: three are listed.
C18_Witness ==
  /\ app = "reason" /\ last # None
  /\ df.user_idea = <<"Helper", "ledger", "Desk", "chatbot", "crm", "AI", "support.">>
  /\ df.project.ai_summary = <<"helper", "Ledger", "ai">>
  /\ df.project.description = <<"desk", "chatbot", "support", "crm">>
  /\ last.outcome.kind = "Shared concepts"
  /\ Len(last.outcome.words) = 3

\* C19: on the corpus P1 'AI chatbot for customer support using GPT
\* models', P2 'Blockchain-based supply chain tracker', P3 'Customer support
\* ticketing system with AI triage' and the query 'I want an AI assistant
\* for handling customer service tickets.', P1 and P3 are both returned, P2
\* is not placed before either, and the match_reason of P1 and of P3 lists
\* both 'customer' and 'support'.
C19_ScenarioRanksAndReasons ==
  (app = "rag" /\ pc = "ready" /\ last # None /\ last.user_idea = ScenarioQuery) =>
    LET results == last.outcome.results
        At(name) == {i \in 1..Len(results) : results[i].name = name}
        Listed(i) == {results[i].match_reason.words[k] :
                        k \in 1..Len(results[i].match_reason.words)}
    IN /\ ~last.outcome.raised
       /\ At(<<"P1">>) # {} /\ At(<<"P3">>) # {}
       /\ \A i \in At(<<"P1">>) \cup At(<<"P3">>) :
            /\ \A j \in At(<<"P2">>) : i < j
            /\ results[i].match_reason.kind = "Shared concepts"
            /\ {"customer", "support"} \subseteq Listed(i)

\* C20: analyze_technology_stack_real reports a category in tech_stack
\* (in business_model) exactly when at least one keyword of the category's
\* dictionary entry is present in the record's description-plus-title text,
\* with confidence min(match_count * 10, 100) for a technology category and
\* min(match_count * 15, 100) for a business model, so within 1..100.
C20_ReportedIffKeywordPresent ==
  (app = "stack" /\ last # None) =>
    LET text == Lower(StrOf(df.rows[1].description) \o StrOf(df.rows[1].title))
        match_count(entry) ==
          Cardinality({i \in 1..Len(entry.keywords) : Occurs(entry.keywords[i], text)})
        AsClaimed(reported, entries, weight) ==
          \A c \in 1..Len(entries) :
            LET hits == {r \in reported : r.category = entries[c].category}
            IN IF match_count(entries[c]) = 0 THEN hits = {}
               ELSE /\ Cardinality(hits) = 1
                    /\ \A r \in hits :
                         /\ r.confidence = Min(match_count(entries[c]) * weight, 100)
                         /\ r.confidence \in 1..100
    IN /\ AsClaimed(last.outcome.tech_stack, TechCategories, 10)
       /\ AsClaimed(last.outcome.business_model, BusinessModels, 15)

\* C21: preprocess_text (streamlit_app_production and streamlit_app_fixed)
\* returns '' for an empty or null text and never raises; for any other text
\* the result is the lowercased text with every character that is not a
\* letter, digit or whitespace replaced by a space, whitespace runs
\* collapsed to one space, and no leading or trailing whitespace.
C21_NormalizedText ==
  (app = "normalize" /\ last # None) =>
    LET cell == df.rows[1].text
        expected ==
          IF cell.kind # "str" THEN <<>>
          ELSE Flatten([i \in 1..Len(cell.text) |-> WordTable[cell.text[i]].alnum])
    IN ~last.outcome.raised /\ last.outcome.words = expected

\* C22: search_startups returns a list and raises nothing whatever each
\* source does (success, exception or timeout, a status other than 200, the
\* rate limit reached), and the records of a requested source in the result
\* are the ones that source returned (one of each name), whatever the other
\* sources did.
C22_SourcesIndependent ==
  (app = "manager" /\ last # None /\ last.fn = "search_startups") =>
    LET before == last.before.public_apis
        api == [rate_limit |-> before.rate_limit, requests_made |-> before.requests_made,
                last_request_time |-> before.last_request_time]
        asked == IF last.args.sources = None THEN AllSources ELSE last.args.sources.list
        github == SearchCompaniesGithub(api, QuietNet, last.args.replies.github)
        npm == SearchCompaniesNpm(IF "github" \in asked THEN github.api ELSE api, QuietNet,
                                  last.args.replies.npm)
        returned == [github |-> github.companies, npm |-> npm.companies,
                     pypi |-> SearchCompaniesPypi(last.args.limit)]
        startups == last.result.startups
    IN /\ ~last.result.raised
       /\ DOMAIN startups = 1..Len(startups)
       /\ \A source \in asked :
            LET OfSource(startup) == startup.source = source
            IN SelectSeq(startups, OfSource) = UniqueStartups(returned[source], {})
       /\ \A j \in 1..Len(startups) : startups[j].source \in asked

\* GitHub failed (an exception, a status other than 200, or the limit was
\* reached before its turn) and the records of NPM and PyPI, one of them of
\* the name GitHub has too, are in the result.
C22_Witness ==
  /\ app = "manager" /\ last # None /\ last.fn = "search_startups"
  /\ last.args.sources = None
  /\ last.args.replies.github.kind \in {"raises", "status"}
  /\ last.args.replies.npm.kind = "200"
  /\ \E j \in 1..Len(last.result.startups) :
       last.result.startups[j].source = "npm" /\ last.result.startups[j].name = "beta"
  /\ \E j \in 1..Len(last.result.startups) : last.result.startups[j].source = "pypi"
  /\ \A j \in 1..Len(last.result.startups) : last.result.startups[j].source # "github"

\* C23: the record get_combined_insights returns, from the try block or
\* from the except clause, has the keys total_startups_found, total_funding
\* and search_query.
C23_InsightKeys ==
  (app = "manager" /\ last # None /\ last.fn = "get_combined_insights") =>
    {"total_startups_found", "total_funding", "search_query"} \subseteq DOMAIN last.result

\* C24: get_api_usage_stats()['crunchbase']['requests_made'] read after a
\* search_startups call is greater than it was before the call.
C24_SearchCounted ==
  (app = "manager" /\ pc[MainThread].at = "reported" /\ last.fn = "search_startups") =>
    /\ "crunchbase" \in DOMAIN first /\ "crunchbase" \in DOMAIN last.before
    /\ first["crunchbase"].requests_made > last.before["crunchbase"].requests_made

\* C25: on one PublicAPIManager, whatever _make_request and
\* reset_usage_counter calls were made, 0 <= requests_made <= rate_limit,
\* the remaining_requests reported is rate_limit - requests_made and not
\* negative, and a _make_request made with requests_made = rate_limit
\* returns None, issues no GET and leaves the counter as it was.
C25_CounterWithinLimit ==
  app = "public_api" =>
    /\ public_api.requests_made \in 0..public_api.rate_limit
    /\ (last # None /\ last.fn = "get_api_usage_stats") =>
         /\ last.stats.remaining_requests = public_api.rate_limit - public_api.requests_made
         /\ last.stats.remaining_requests >= 0
    /\ (last # None /\ last.fn = "_make_request" /\ last.before = public_api.rate_limit) =>
         /\ last.result = None /\ ~last.got
         /\ public_api.requests_made = last.before

\* The limit was reached and a further request was refused.
C25_Witness ==
  /\ app = "public_api" /\ last # None /\ last.fn = "_make_request"
  /\ last.before = RateLimit /\ ~last.got
  /\ public_api.requests_made = RateLimit

\* C26: over the runs of the sections in one session, the number of GETs
\* sent to the public APIs is at most rate_limit (100), and the 'Requests
\* Made' that 'Check API Usage' shows is the number of GETs the earlier
\* runs sent.
C26_SessionWithinLimit ==
  app = "sections" =>
    /\ net.gets <= RateLimit
    /\ \A i \in 1..Len(ui) :
         ui[i].element = "usage_metrics" =>
           /\ ui[i].requests_made = net.gets
           /\ ui[i].remaining = RateLimit - net.gets

\* C27: on one PublicAPIManager, requests_made is the number of GETs issued
\* since construction or the last reset_usage_counter, whatever came of
\* them (200, another status, an exception), and every GET updates
\* last_request_time, so that two consecutive GETs are at least 2 seconds
\* apart.
C27_EveryGetCounted ==
  (app = "public_api" /\ pc[MainThread] = Idle) =>
    /\ public_api.requests_made = net.gets
    /\ (last # None /\ last.fn = "_make_request" /\ last.got) =>
         /\ public_api.last_request_time # None
         /\ public_api.last_request_time.ago <= net.since_get
    /\ ~net.rushed

\* C28: in streamlit_app_with_apis, the rerun that follows the submission
\* of the search form with a non-empty query draws the search section again
\* and shows the outcome, results or the no-results warning; and the rerun
\* that follows the use of any section's button or form draws that section.
C28_SubmissionHandled ==
  (app = "with_apis" /\ last # None) =>
    /\ (last.fn = "submit_startup_search_form" /\ last.text # "") =>
         /\ Drawn("startup_search_form")
         /\ Drawn("success") \/ Drawn("warning")
    /\ last.fn \in {"click_get_trending_projects", "submit_insights_form",
                    "click_check_api_usage"} => Drawn(last.pressed)

\* C29: in streamlit_app_enhanced, whenever analysis_results is not empty
\* its user_query is st.session_state.user_idea, the most recent idea
\* analysed, and what the Market Intelligence page shows is of that idea.
C29_ResultsOfLatestQuery ==
  app = "enhanced" =>
    /\ DOMAIN session_state.analysis_results # {} =>
         session_state.analysis_results.user_query = session_state.user_idea
    /\ \A i \in 1..Len(ui) :
         ui[i].element = "market_intelligence" => ui[i].user_query = session_state.user_idea

\* C30: find_similar_projects returns at most max(limit, 0) results for
\* every integer limit, so none for a limit of zero or less.
C30_AtMostLimit ==
  (app = "rag" /\ last # None /\ ~last.outcome.raised) =>
    Len(last.outcome.results) <= Max(last.limit, 0)

=============================================================================
